---- MODULE Spec2Model ----
(***************************************************************************)
(* Air conditioner remote (lab-iot-homekit): the converge state machine    *)
(* of AirConditionerRemote, its loop() scheduler and its EEPROM adapter.   *)
(*                                                                         *)
(* Three revisions of the service exist in the repository:                 *)
(*   variant 1  the persistence-capable revision (EEPROM, clamped          *)
(*              setpoints, 100 ms / 1000 ms cadence);                      *)
(*   variant 2  the non-persistent revision (always-wrapping               *)
(*              progressNextState, 500 ms / 2000 ms cadence);              *)
(*   variant 3  air-conditioner-remote/services.h, whose tickTaskSM only   *)
(*              selects the priority branch (its body is still TODO).      *)
(*                                                                         *)
(* unsigned int values are kept as integers; a value that went below zero  *)
(* stands for its 32-bit wrap-around (2^32 + value), which is larger than  *)
(* every number the model can hold, see Sub32 and U32GreaterEq.            *)
(***************************************************************************)
EXTENDS Integers, Sequences, FiniteSets, TLC

\* ------------------------------------------------------------------ bounds
\* The environment is explored under seven profiles, chosen at start-up:
\*   "timing"   loop() is called after short clock advances (below and at the
\*              wake-up interval), the user writes power and mode;
\*   "drift"    loop() is called after long advances (wake-up and commit
\*              interval) and the clock may advance inside a pass;
\*   "restart"  as "drift" without the advance inside a pass, and the device
\*              may lose power;
\*   "poll"     the first loop() pass comes one poll interval after
\*              construction, later passes a wake-up or a poll interval apart;
\*   "engine"   the user writes any characteristic before time first passes,
\*              then loop() passes are one wake-up interval apart (every pass
\*              ticks);
\*   "resume"   as "engine", but the device starts on durable bytes that an
\*              earlier run has committed and the user writes at any time;
\*   "live"     as "engine" in revision 1, with enough passes for the longest
\*              convergence and the commit after it.
Profiles == {"timing", "drift", "restart", "poll", "engine", "resume", "live"}

\* The (revision, profile) pairs explored.
Configurations == {<<1, "timing">>, <<3, "timing">>, <<1, "drift">>,
                   <<1, "restart">>, <<1, "poll">>,
                   <<1, "engine">>, <<2, "engine">>, <<3, "engine">>,
                   <<1, "resume">>, <<1, "live">>}

MaxAdvancesTiming == 4
MaxAdvancesLive == 24
MaxAdvancesDrift == 3
MaxAdvancesRestart == 3
MaxAdvancesPoll == 2
MaxAdvancesEngine == 16
MaxAdvancesResume == 3
MaxUserWritesTiming == 2
MaxUserWritesDrift == 1
MaxUserWritesEngine == 2
MaxRestarts == 1

\* Clock advances between two handlers, and inside one loop() pass.
ShortTimeSteps == {100, 1000}
LongTimeSteps == {1000, 5000}
PollTimeSteps == {1000, 30000}
PassDurations == {0, 100}

\* Setpoints the user picks (inside the declared ranges).
UserCoolingChoices == {18, 20, 32}
UserHeatingChoices == {13, 18, 27}

\* What dht.readTemperature() returns: <<t>> for t degrees Celsius, <<>> for
\* NaN (failed read).
SensorReadings == {<<>>, <<-5>>, <<0>>, <<21>>, <<99>>, <<100>>, <<120>>}

\* Confirmed configurations <<power, mode, cooling, heating, swing>> that an
\* earlier run has committed, for the "resume" profile.
StoredConfigurations == {<<1, 2, 18, 18, 1>>, <<1, 1, 18, 18, 1>>,
                         <<1, 2, 20, 18, 1>>, <<0, 2, 32, 27, 0>>}

Variants == {1, 2, 3}


\* --------------------------------------------------------------- constants
EEPROM_ADDRESS_SM_ACTIVE == 0
EEPROM_ADDRESS_SM_TARGET_HEATER_COOLER_STATE == 1
EEPROM_ADDRESS_SM_COOLING_THRESHOLD_TEMPERATURE == 2
EEPROM_ADDRESS_SM_HEATING_THRESHOLD_TEMPERATURE == 3
EEPROM_ADDRESS_SM_SWING_MODE == 4
EEPROM_ERASED == 255

IR_COMMAND_SWITCH_POWER == 107
IR_COMMAND_SWITCH_MODE == 102
IR_COMMAND_TOGGLE_SWING == 103
IR_COMMAND_TEMPERATURE_INCREASE == 101
IR_COMMAND_TEMPERATURE_DECREASE == 104

INITIALIZE_HOLD_MILLISECONDS == 500
POLL_EVERY_MILLISECONDS == 30000
COMMIT_EVERY_MILLISECONDS == 5000

RANGE_TEMPERATURE_CURRENT_MINIMUM == 0
RANGE_TEMPERATURE_COOL_MINIMUM == 18
RANGE_TEMPERATURE_COOL_MAXIMUM == 32
RANGE_TEMPERATURE_HEAT_MINIMUM == 13
RANGE_TEMPERATURE_HEAT_MAXIMUM == 27

ACTIVE_INACTIVE == 0
ACTIVE_ACTIVE == 1

CURRENT_HEATER_COOLER_STATE_INACTIVE == 0
CURRENT_HEATER_COOLER_STATE_IDLE == 1
CURRENT_HEATER_COOLER_STATE_HEATING == 2
CURRENT_HEATER_COOLER_STATE_COOLING == 3

TARGET_HEATER_COOLER_STATE_HEAT == 1
TARGET_HEATER_COOLER_STATE_COOL == 2

ACTIVE_SWING_MODE_DISABLED == 0
ACTIVE_SWING_MODE_ENABLED == 1

DEFAULT_ACTIVE == ACTIVE_INACTIVE
DEFAULT_TARGET_HEATER_COOLER_STATE == TARGET_HEATER_COOLER_STATE_COOL
DEFAULT_THRESHOLD_TEMPERATURE == 18
DEFAULT_SWING_MODE == ACTIVE_SWING_MODE_ENABLED

\* ------------------------------------------------------------------- state
VARIABLES
    variant,                     \* which revision of the service runs
    clock,                       \* millis()
    lastLoopPollMillis,
    lastLoopSMMillis,
    lastLoopCommitMillis,
    delayLoopSMMillis,
    hasUncommitedEEPROMChanges,
    hk,                          \* HomeKit values (desired, user-modified)
    hkCurrentHeaterCoolerState,  \* published derived current mode
    hkCurrentTemperature,        \* published temperature
    sm,                          \* state machine values (confirmed)
    eepromRam,                   \* EEPROM library buffer (staged bytes)
    eepromFlash,                 \* durable bytes
    last,                        \* what the last handler did
    stagedAt,                    \* millis() of the latest writeEEPROM, or -1
    updatedAt,                   \* millis() of the latest update(), or -1
    tickedAt,                    \* nowMillis of the latest converge tick, or -1
    tickedDelay,                 \* interval that tick asked for
    advances,                    \* clock advances since construction
    profile,                     \* environment profile
    userWrites,
    restarts,
    probe,                       \* a single call made on its own, see Calls
    tank                         \* the water tank level sensor (part_000)

vars == <<variant, clock, lastLoopPollMillis, lastLoopSMMillis,
          lastLoopCommitMillis, delayLoopSMMillis, hasUncommitedEEPROMChanges,
          hk, hkCurrentHeaterCoolerState, hkCurrentTemperature, sm,
          eepromRam, eepromFlash, last, stagedAt, updatedAt, tickedAt,
          tickedDelay, advances, profile, userWrites, restarts, probe, tank>>

Fields == {"Active", "TargetHeaterCoolerState", "CoolingThresholdTemperature",
           "HeatingThresholdTemperature", "SwingMode"}

\* ------------------------------------------------- revision-dependent data
\* Revision 1 is unnamed/part_001, revision 2 unnamed/part_002, revision 3
\* air-conditioner-remote/services.h.
\* part_001:34-35 and 38; part_002:26-27 and 30; services.h:8-9 and 12.
SM_CONVERGE_EVERY_MILLISECONDS == IF variant = 1 THEN 100 ELSE 500
SM_WAKE_UP_EVERY_MILLISECONDS == IF variant = 1 THEN 1000 ELSE 2000
RANGE_TEMPERATURE_CURRENT_MAXIMUM == IF variant = 1 THEN 99 ELSE 50

\* Value 0 of the target mode is named AUTO in revision 1 (part_001:63-72) and
\* OFF in the others (part_002:55-64, services.h:35-40).
TARGET_HEATER_COOLER_STATE_AUTO == IF variant = 1 THEN 0 ELSE 3
TARGET_HEATER_COOLER_STATE_OFF == 0
TARGET_HEATER_COOLER_STATE_UNMAPPED_1 == IF variant = 1 THEN 3 ELSE 4
TARGET_HEATER_COOLER_STATE_UNMAPPED_2 == 4

STATES_DIRECTION_ACTIVE == <<ACTIVE_INACTIVE, ACTIVE_ACTIVE>>

\* A mode array in the numeric order of the enum values.
STATES_DIRECTION_TARGET_HEATER_COOLER_STATE_NUMERIC ==
    <<TARGET_HEATER_COOLER_STATE_AUTO, TARGET_HEATER_COOLER_STATE_HEAT,
      TARGET_HEATER_COOLER_STATE_COOL, TARGET_HEATER_COOLER_STATE_UNMAPPED_1,
      TARGET_HEATER_COOLER_STATE_UNMAPPED_2>>

\* A mode array whose last entry is not a mode value.
STATES_DIRECTION_TARGET_HEATER_COOLER_STATE_FOREIGN ==
    <<TARGET_HEATER_COOLER_STATE_HEAT, TARGET_HEATER_COOLER_STATE_AUTO,
      TARGET_HEATER_COOLER_STATE_COOL, TARGET_HEATER_COOLER_STATE_UNMAPPED_1, 7>>

\* part_001:85-91, part_002:77-83, services.h:49-54.
STATES_DIRECTION_TARGET_HEATER_COOLER_STATE ==
    IF variant = 1
    THEN <<TARGET_HEATER_COOLER_STATE_HEAT, TARGET_HEATER_COOLER_STATE_AUTO,
           TARGET_HEATER_COOLER_STATE_COOL, TARGET_HEATER_COOLER_STATE_UNMAPPED_1,
           TARGET_HEATER_COOLER_STATE_UNMAPPED_2>>
    ELSE IF variant = 2
    THEN <<TARGET_HEATER_COOLER_STATE_HEAT, TARGET_HEATER_COOLER_STATE_AUTO,
           TARGET_HEATER_COOLER_STATE_COOL, TARGET_HEATER_COOLER_STATE_UNMAPPED_1,
           TARGET_HEATER_COOLER_STATE_OFF>>
    ELSE <<TARGET_HEATER_COOLER_STATE_COOL, TARGET_HEATER_COOLER_STATE_HEAT,
           -1, TARGET_HEATER_COOLER_STATE_AUTO>>

\* The arrays hold 15 values in revisions 1 and 2 (part_001:93-103,
\* part_002:85-91); the sizes are 15 in revision 1 (part_001:112-113) and 14
\* in revision 2 (part_002:100-101).
STATES_COOLING_THRESHOLD_TEMPERATURE ==
    [i \in 1..15 |-> RANGE_TEMPERATURE_COOL_MINIMUM + i - 1]

STATES_HEATING_THRESHOLD_TEMPERATURE ==
    [i \in 1..15 |-> RANGE_TEMPERATURE_HEAT_MINIMUM + i - 1]

STATES_SWING_MODE == <<ACTIVE_SWING_MODE_DISABLED, ACTIVE_SWING_MODE_ENABLED>>

SIZE_DIRECTION_ACTIVE == 2
SIZE_DIRECTION_TARGET_HEATER_COOLER_STATE == 5
SIZE_DIRECTION_COOLING_THRESHOLD_TEMPERATURE == IF variant = 1 THEN 15 ELSE 14
SIZE_DIRECTION_HEATING_THRESHOLD_TEMPERATURE == IF variant = 1 THEN 15 ELSE 14
SIZE_DIRECTION_SWING_MODE == 2

\* ------------------------------------------------- unsigned int arithmetic
\* TLC integers are 32-bit signed, so 2^32 cannot be written.  The model's
\* clocks stay below 2^31; a difference a - b of two unsigned ints with a < b
\* wraps to 2^32 - (b - a) > 2^31 - 1, and is represented by UINT_WRAPPED,
\* which compares like the wrapped value against every interval of the code.
UINT_WRAPPED == 2147483647

Sub32(a, b) == IF a >= b THEN a - b ELSE UINT_WRAPPED

\* (unsigned) x >= n, for a signed x that was stored into an unsigned int.
U32GreaterEq(x, n) == x < 0 \/ x >= n

\* (unsigned) x < 0: never true.
U32LessThanZero(x) == FALSE

\* ------------------------------------------------ circular state progression
\* A search that reports index 0 for a value it does not find.
IndexOfStateOrZero(statesCircle, statesCircleSize, currentState) ==
    LET found == {i \in 0..(statesCircleSize - 1) : statesCircle[i + 1] = currentState}
    IN IF found = {} THEN 0
       ELSE CHOOSE i \in found : \A j \in found : i <= j

\* Index (from 0) of currentState in the first statesCircleSize entries of
\* statesCircle, or -1.
IndexOfState(statesCircle, statesCircleSize, currentState) ==
    LET found == {i \in 0..(statesCircleSize - 1) : statesCircle[i + 1] = currentState}
    IN IF found = {} THEN -1
       ELSE CHOOSE i \in found : \A j \in found : i <= j

\* A progression that steps forward whatever the increment.
progressNextStateForwardOnly(statesCircle, statesCircleSize, currentState, increment, circle) ==
    LET currentStateIndex == IndexOfState(statesCircle, statesCircleSize, currentState)
        nextStateIndex == currentStateIndex + 1
    IN IF currentStateIndex < 0
       THEN statesCircle[1]
       ELSE IF U32GreaterEq(nextStateIndex, statesCircleSize)
            THEN statesCircle[(IF circle THEN 0 ELSE statesCircleSize - 1) + 1]
            ELSE statesCircle[nextStateIndex + 1]

\* A progression that clamps at the end of every sequence, circular or not.
progressNextStateClampOnly(statesCircle, statesCircleSize, currentState, increment, circle) ==
    LET currentStateIndex == IndexOfState(statesCircle, statesCircleSize, currentState)
        nextStateIndex == currentStateIndex + increment
    IN IF currentStateIndex < 0
       THEN statesCircle[1]
       ELSE IF U32GreaterEq(nextStateIndex, statesCircleSize)
            THEN statesCircle[(statesCircleSize - 1) + 1]
            ELSE statesCircle[nextStateIndex + 1]

\* A progression that wraps at the end of every sequence, circular or not.
progressNextStateWrapOnly(statesCircle, statesCircleSize, currentState, increment, circle) ==
    LET currentStateIndex == IndexOfState(statesCircle, statesCircleSize, currentState)
        nextStateIndex == currentStateIndex + increment
    IN IF currentStateIndex < 0
       THEN statesCircle[1]
       ELSE IF U32GreaterEq(nextStateIndex, statesCircleSize)
            THEN statesCircle[0 + 1]
            ELSE statesCircle[nextStateIndex + 1]

\* Variant 1: progressNextState(statesCircle, size, currentState, increment, circle).
progressNextState(statesCircle, statesCircleSize, currentState, increment, circle) ==
    LET currentStateIndex == IndexOfState(statesCircle, statesCircleSize, currentState)
        \* unsigned int nextStateIndex = currentStateIndex + increment;
        nextStateIndex == currentStateIndex + increment
    IN IF currentStateIndex < 0
       THEN statesCircle[1]
       ELSE IF U32GreaterEq(nextStateIndex, statesCircleSize)
            THEN statesCircle[(IF circle THEN 0 ELSE statesCircleSize - 1) + 1]
            ELSE IF U32LessThanZero(nextStateIndex)
                 THEN statesCircle[(IF circle THEN statesCircleSize - 1 ELSE 0) + 1]
                 ELSE statesCircle[nextStateIndex + 1]

\* Variant 2: progressNextState(statesCircle, size, currentState, increment).
progressNextStateR2(statesCircle, statesCircleSize, currentState, increment) ==
    LET currentStateIndex == IndexOfState(statesCircle, statesCircleSize, currentState)
        nextStateIndex == currentStateIndex + increment
    IN IF currentStateIndex < 0
       THEN statesCircle[1]
       ELSE IF U32GreaterEq(nextStateIndex, statesCircleSize)
            THEN statesCircle[0 + 1]
            ELSE IF U32LessThanZero(nextStateIndex)
                 THEN statesCircle[(statesCircleSize - 1) + 1]
                 ELSE statesCircle[nextStateIndex + 1]

\* A conversion that does not look at the power.
convertTargetModeToCurrentModeIgnoresPower(active, targetMode) ==
    IF targetMode = TARGET_HEATER_COOLER_STATE_COOL
       \/ targetMode = TARGET_HEATER_COOLER_STATE_AUTO
    THEN CURRENT_HEATER_COOLER_STATE_COOLING
    ELSE IF targetMode = TARGET_HEATER_COOLER_STATE_HEAT
         THEN CURRENT_HEATER_COOLER_STATE_HEATING
         ELSE CURRENT_HEATER_COOLER_STATE_IDLE

convertTargetModeToCurrentMode(active, targetMode) ==
    IF active = ACTIVE_ACTIVE
    THEN IF targetMode = TARGET_HEATER_COOLER_STATE_COOL
            \/ targetMode = TARGET_HEATER_COOLER_STATE_AUTO
         THEN CURRENT_HEATER_COOLER_STATE_COOLING
         ELSE IF targetMode = TARGET_HEATER_COOLER_STATE_HEAT
              THEN CURRENT_HEATER_COOLER_STATE_HEATING
              ELSE CURRENT_HEATER_COOLER_STATE_IDLE
    ELSE CURRENT_HEATER_COOLER_STATE_INACTIVE

\* ----------------------------------------------------------- EEPROM adapter
\* A read that takes 0 for the erase sentinel.
readEEPROMOrDefaultZeroSentinel(ram, address, defaultValue) ==
    LET savedValue == ram[address]
    IN IF savedValue = 0 THEN defaultValue ELSE savedValue

\* readEEPROMOrDefault() on the library's buffer (part_001:525-535).
readEEPROMOrDefault(ram, address, defaultValue) ==
    LET savedValue == ram[address]
    IN IF savedValue = EEPROM_ERASED THEN defaultValue ELSE savedValue

\* EEPROM.write(address, value) stores one byte into the library's buffer.
EEPROMWrite(ram, address, value) == [ram EXCEPT ![address] = value % 256]

\* ------------------------------------------------------------ converge tick
\* The result of one tickTaskSM() call on desired values hkv, confirmed values
\* smv and published current mode cur:
\*   sm       the confirmed values at return,
\*   writes   the writeEEPROM(address, value) calls made, in order,
\*   ir       the words given to emitInfraRedWord, in order,
\*   current  the published current mode at return,
\*   ret      the returned boolean,
\*   branch   the mismatch branch that was entered ("none" if none).
TickResultWithoutSignal(smv, writes, ir, cur, ret, branch) ==
    [sm |-> smv, writes |-> writes, ir |-> <<>>, current |-> cur,
     ret |-> ret, branch |-> branch]

TickResult(smv, writes, ir, cur, ret, branch) ==
    [sm |-> smv, writes |-> writes, ir |-> ir, current |-> cur,
     ret |-> ret, branch |-> branch]

\* A gate that forgets the power test.
SetpointGateModeOnly(smv) ==
    smv.TargetHeaterCoolerState >
        (IF variant = 1 THEN TARGET_HEATER_COOLER_STATE_AUTO
         ELSE TARGET_HEATER_COOLER_STATE_OFF)

\* if (smActive == ACTIVE_ACTIVE && smTargetHeaterCoolerState > ..._AUTO)
\* (revisions 2 and 3 compare with ..._OFF, the same value 0).
SetpointGate(smv) ==
    /\ smv.Active = ACTIVE_ACTIVE
    /\ smv.TargetHeaterCoolerState >
           (IF variant = 1 THEN TARGET_HEATER_COOLER_STATE_AUTO
            ELSE TARGET_HEATER_COOLER_STATE_OFF)

\* A cooling test that looks at the wrong mode.
CoolingDueWrongMode(hkv, smv) ==
    /\ smv.TargetHeaterCoolerState = TARGET_HEATER_COOLER_STATE_HEAT
    /\ hkv.CoolingThresholdTemperature # smv.CoolingThresholdTemperature

CoolingDue(hkv, smv) ==
    /\ smv.TargetHeaterCoolerState = TARGET_HEATER_COOLER_STATE_COOL
    /\ hkv.CoolingThresholdTemperature # smv.CoolingThresholdTemperature

\* A heating test that forgets the mode.
HeatingDueAnyMode(hkv, smv) ==
    hkv.HeatingThresholdTemperature # smv.HeatingThresholdTemperature

HeatingDue(hkv, smv) ==
    /\ smv.TargetHeaterCoolerState = TARGET_HEATER_COOLER_STATE_HEAT
    /\ hkv.HeatingThresholdTemperature # smv.HeatingThresholdTemperature

\* A chain that tests the mode before the power.
tickBranchModeFirst(hkv, smv) ==
    IF hkv.TargetHeaterCoolerState # smv.TargetHeaterCoolerState
    THEN "TargetHeaterCoolerState"
    ELSE IF hkv.Active # smv.Active
    THEN "Active"
    ELSE IF SetpointGate(smv)
    THEN IF CoolingDue(hkv, smv)
         THEN "CoolingThresholdTemperature"
         ELSE IF HeatingDue(hkv, smv)
         THEN "HeatingThresholdTemperature"
         ELSE IF hkv.SwingMode # smv.SwingMode
         THEN "SwingMode"
         ELSE "none"
    ELSE "none"

\* The chain of if statements of tickTaskSM(): the first branch entered.
tickBranch(hkv, smv) ==
    IF hkv.Active # smv.Active
    THEN "Active"
    ELSE IF hkv.TargetHeaterCoolerState # smv.TargetHeaterCoolerState
    THEN "TargetHeaterCoolerState"
    ELSE IF SetpointGate(smv)
    THEN IF CoolingDue(hkv, smv)
         THEN "CoolingThresholdTemperature"
         ELSE IF HeatingDue(hkv, smv)
         THEN "HeatingThresholdTemperature"
         ELSE IF hkv.SwingMode # smv.SwingMode
         THEN "SwingMode"
         ELSE "none"
    ELSE "none"

\* Revision 1 (persistence-capable).
tickTaskSM(hkv, smv, cur) ==
    LET branch == tickBranch(hkv, smv)
    IN CASE branch = "Active" ->
              LET n == progressNextState(STATES_DIRECTION_ACTIVE, SIZE_DIRECTION_ACTIVE,
                                         smv.Active, 1, TRUE)
              IN TickResult([smv EXCEPT !.Active = n],
                            << <<EEPROM_ADDRESS_SM_ACTIVE, n>> >>,
                            <<IR_COMMAND_SWITCH_POWER>>, cur, FALSE, branch)
         [] branch = "TargetHeaterCoolerState" ->
              LET n == progressNextState(STATES_DIRECTION_TARGET_HEATER_COOLER_STATE,
                                         SIZE_DIRECTION_TARGET_HEATER_COOLER_STATE,
                                         smv.TargetHeaterCoolerState, 1, TRUE)
              IN TickResult([smv EXCEPT !.TargetHeaterCoolerState = n],
                            << <<EEPROM_ADDRESS_SM_TARGET_HEATER_COOLER_STATE, n>> >>,
                            <<IR_COMMAND_SWITCH_MODE>>,
                            IF n = hkv.TargetHeaterCoolerState
                            THEN convertTargetModeToCurrentMode(smv.Active, n)
                            ELSE cur,
                            FALSE, branch)
         [] branch = "CoolingThresholdTemperature" ->
              LET coolingIncrement ==
                      IF smv.CoolingThresholdTemperature < hkv.CoolingThresholdTemperature
                      THEN 1 ELSE -1
                  n == progressNextState(STATES_COOLING_THRESHOLD_TEMPERATURE,
                                         SIZE_DIRECTION_COOLING_THRESHOLD_TEMPERATURE,
                                         smv.CoolingThresholdTemperature,
                                         coolingIncrement, FALSE)
              IN TickResult([smv EXCEPT !.CoolingThresholdTemperature = n],
                            << <<EEPROM_ADDRESS_SM_COOLING_THRESHOLD_TEMPERATURE, n>> >>,
                            <<IF coolingIncrement > 0
                              THEN IR_COMMAND_TEMPERATURE_INCREASE
                              ELSE IR_COMMAND_TEMPERATURE_DECREASE>>,
                            cur, FALSE, branch)
         [] branch = "HeatingThresholdTemperature" ->
              LET heatingIncrement ==
                      IF smv.HeatingThresholdTemperature < hkv.HeatingThresholdTemperature
                      THEN 1 ELSE -1
                  n == progressNextState(STATES_HEATING_THRESHOLD_TEMPERATURE,
                                         SIZE_DIRECTION_HEATING_THRESHOLD_TEMPERATURE,
                                         smv.HeatingThresholdTemperature,
                                         heatingIncrement, FALSE)
              IN TickResult([smv EXCEPT !.HeatingThresholdTemperature = n],
                            << <<EEPROM_ADDRESS_SM_HEATING_THRESHOLD_TEMPERATURE, n>> >>,
                            <<IF heatingIncrement > 0
                              THEN IR_COMMAND_TEMPERATURE_INCREASE
                              ELSE IR_COMMAND_TEMPERATURE_DECREASE>>,
                            cur, FALSE, branch)
         [] branch = "SwingMode" ->
              LET n == progressNextState(STATES_SWING_MODE, SIZE_DIRECTION_SWING_MODE,
                                         smv.SwingMode, 1, TRUE)
              IN TickResult([smv EXCEPT !.SwingMode = n],
                            << <<EEPROM_ADDRESS_SM_SWING_MODE, n>> >>,
                            <<IR_COMMAND_TOGGLE_SWING>>, cur, FALSE, branch)
         [] OTHER -> TickResult(smv, <<>>, <<>>, cur, TRUE, "none")

\* Revision 2: no EEPROM, progressNextState without the circle argument.
tickTaskSMR2(hkv, smv, cur) ==
    LET branch == tickBranch(hkv, smv)
    IN CASE branch = "Active" ->
              LET n == progressNextStateR2(STATES_DIRECTION_ACTIVE, SIZE_DIRECTION_ACTIVE,
                                           smv.Active, 1)
              IN TickResult([smv EXCEPT !.Active = n], <<>>,
                            <<IR_COMMAND_SWITCH_POWER>>, cur, FALSE, branch)
         [] branch = "TargetHeaterCoolerState" ->
              LET n == progressNextStateR2(STATES_DIRECTION_TARGET_HEATER_COOLER_STATE,
                                           SIZE_DIRECTION_TARGET_HEATER_COOLER_STATE,
                                           smv.TargetHeaterCoolerState, 1)
              IN TickResult([smv EXCEPT !.TargetHeaterCoolerState = n], <<>>,
                            <<IR_COMMAND_SWITCH_MODE>>,
                            IF n = hkv.TargetHeaterCoolerState
                            THEN convertTargetModeToCurrentMode(smv.Active, n)
                            ELSE cur,
                            FALSE, branch)
         [] branch = "CoolingThresholdTemperature" ->
              LET coolingIncrement ==
                      IF smv.CoolingThresholdTemperature < hkv.CoolingThresholdTemperature
                      THEN 1 ELSE -1
                  n == progressNextStateR2(STATES_COOLING_THRESHOLD_TEMPERATURE,
                                           SIZE_DIRECTION_COOLING_THRESHOLD_TEMPERATURE,
                                           smv.CoolingThresholdTemperature,
                                           coolingIncrement)
              IN TickResult([smv EXCEPT !.CoolingThresholdTemperature = n], <<>>,
                            <<IF coolingIncrement > 0
                              THEN IR_COMMAND_TEMPERATURE_INCREASE
                              ELSE IR_COMMAND_TEMPERATURE_DECREASE>>,
                            cur, FALSE, branch)
         [] branch = "HeatingThresholdTemperature" ->
              LET heatingIncrement ==
                      IF smv.HeatingThresholdTemperature < hkv.HeatingThresholdTemperature
                      THEN 1 ELSE -1
                  n == progressNextStateR2(STATES_HEATING_THRESHOLD_TEMPERATURE,
                                           SIZE_DIRECTION_HEATING_THRESHOLD_TEMPERATURE,
                                           smv.HeatingThresholdTemperature,
                                           heatingIncrement)
              IN TickResult([smv EXCEPT !.HeatingThresholdTemperature = n], <<>>,
                            <<IF heatingIncrement > 0
                              THEN IR_COMMAND_TEMPERATURE_INCREASE
                              ELSE IR_COMMAND_TEMPERATURE_DECREASE>>,
                            cur, FALSE, branch)
         [] branch = "SwingMode" ->
              LET n == progressNextStateR2(STATES_SWING_MODE, SIZE_DIRECTION_SWING_MODE,
                                           smv.SwingMode, 1)
              IN TickResult([smv EXCEPT !.SwingMode = n], <<>>,
                            <<IR_COMMAND_TOGGLE_SWING>>, cur, FALSE, branch)
         [] OTHER -> TickResult(smv, <<>>, <<>>, cur, TRUE, "none")

\* Revision 3 (services.h): every branch only logs and returns false.
tickTaskSMR3(hkv, smv, cur) ==
    LET branch == tickBranch(hkv, smv)
    IN TickResult(smv, <<>>, <<>>, cur, branch = "none", branch)

\* -------------------------------------------------------------- environment
MaxAdvances ==
    CASE profile = "timing" -> MaxAdvancesTiming
      [] profile = "drift" -> MaxAdvancesDrift
      [] profile = "restart" -> MaxAdvancesRestart
      [] profile = "poll" -> MaxAdvancesPoll
      [] profile = "engine" -> MaxAdvancesEngine
      [] profile = "resume" -> MaxAdvancesResume
      [] profile = "live" -> MaxAdvancesLive

EveryPassTicks == profile \in {"engine", "resume", "live"}

MaxUserWrites ==
    CASE profile \in {"timing", "restart"} -> MaxUserWritesTiming
      [] profile \in {"drift", "poll"} -> MaxUserWritesDrift
      [] profile \in {"engine", "resume", "live"} -> MaxUserWritesEngine

\* In the engine and live profiles the user is done before time first passes.
UserMayWrite == profile \in {"engine", "live"} => advances = 0

RestartBudget == IF profile = "restart" THEN MaxRestarts ELSE 0

AdvanceSteps ==
    CASE profile = "timing" -> ShortTimeSteps
      [] profile \in {"drift", "restart"} -> LongTimeSteps
      [] profile = "poll" -> PollTimeSteps
      [] profile \in {"engine", "resume", "live"} -> {SM_WAKE_UP_EVERY_MILLISECONDS}

LoopDurations == IF profile = "drift" THEN PassDurations ELSE {0}

\* millis() at the first handler call after the constructor returned: right
\* after the initialize hold, or after a long network set-up.
BootClocks ==
    IF profile = "poll" THEN {POLL_EVERY_MILLISECONDS}
    ELSE {INITIALIZE_HOLD_MILLISECONDS}

\* Characteristics the user writes: outside the engine and resume profiles
\* only the two whose mismatch is never gated.
UserFields ==
    IF EveryPassTicks
    THEN {"Active", "TargetHeaterCoolerState", "CoolingThresholdTemperature",
          "HeatingThresholdTemperature", "SwingMode"}
    ELSE {"Active", "TargetHeaterCoolerState"}

\* ------------------------------------------------ water tank level sensor
\* The second service of the repository (part_000): WaterTankLevelSensor.
\* Its constants are prefixed with WATER_ or TANK_ where the source reuses a
\* name of the air conditioner remote.
TANK_POLL_EVERY_MILLISECONDS == 600000
WATER_LEVEL_PROBE_SAMPLES == 10
WATER_LEVEL_LOW_THRESHOLD == 20

\* Percentages are floats in the source.  With
\*   distance = ((float)duration / 2) / 29.1 - WATER_TANK_SENSOR_OFFSET_DISTANCE
\*            = (10 * duration - 582) / 582                      (centimeters)
\*   (distance / WATER_TANK_FILL_EMPTY_DISTANCE) * 100.0
\*            = (10 * duration - 582) * 100 / 16296
\* a percentage p is represented exactly by the integer p * 16296.
PERCENT_SCALE == 16296
WATER_TANK_SENSOR_OFFSET_SCALED == 582

FloatMin(a, b) == IF a < b THEN a ELSE b
FloatMax(a, b) == IF a > b THEN a ELSE b

\* A sample conversion that takes a failed reading for a full tank.
probeWaterLevelSampleFailsFull(durationSample) ==
    IF durationSample = 0
    THEN 100 * PERCENT_SCALE
    ELSE 100 * PERCENT_SCALE
         - FloatMax(0, FloatMin((10 * durationSample - WATER_TANK_SENSOR_OFFSET_SCALED) * 100,
                                100 * PERCENT_SCALE))

\* probeWaterLevelSample(): the scaled percentage for one echo duration in
\* microseconds, as pulseIn() returns it (0 for a timeout).
probeWaterLevelSample(durationSample) ==
    IF durationSample = 0
    THEN 0
    ELSE 100 * PERCENT_SCALE
         - FloatMax(0, FloatMin((10 * durationSample - WATER_TANK_SENSOR_OFFSET_SCALED) * 100,
                                100 * PERCENT_SCALE))

\* floatQuickSort() works on [values, outside]: the array (indices from 0 in
\* the source, from 1 here) and whether an index outside the array was used.
RECURSIVE ScanUpPastEqual(_, _, _)
\* A forward scan that also steps over values equal to the pivot.
ScanUpPastEqual(values, i, pivot) ==
    IF i < 0 \/ i >= Len(values) THEN i
    ELSE IF values[i + 1] <= pivot THEN ScanUpPastEqual(values, i + 1, pivot) ELSE i

RECURSIVE ScanUp(_, _, _)
\* while (values[i] < pivot) i++;
ScanUp(values, i, pivot) ==
    IF i < 0 \/ i >= Len(values) THEN i
    ELSE IF values[i + 1] < pivot THEN ScanUp(values, i + 1, pivot) ELSE i

RECURSIVE ScanDown(_, _, _)
\* while (values[j] > pivot) j--;
ScanDown(values, j, pivot) ==
    IF j < 0 \/ j >= Len(values) THEN j
    ELSE IF values[j + 1] > pivot THEN ScanDown(values, j - 1, pivot) ELSE j

SwapValues(values, i, j) ==
    [values EXCEPT ![i + 1] = values[j + 1], ![j + 1] = values[i + 1]]

RECURSIVE Partition(_, _, _, _)
\* The partition loop "while (i <= j)" from indices i and j on.
Partition(values, i, j, pivot) ==
    IF i > j THEN [values |-> values, i |-> i, j |-> j, outside |-> FALSE]
    ELSE LET i2 == ScanUp(values, i, pivot)
             j2 == ScanDown(values, j, pivot)
         IN IF i2 < 0 \/ i2 >= Len(values) \/ j2 < 0 \/ j2 >= Len(values)
            THEN [values |-> values, i |-> i2, j |-> j2, outside |-> TRUE]
            ELSE IF i2 <= j2
                 THEN Partition(SwapValues(values, i2, j2), i2 + 1, j2 - 1, pivot)
                 ELSE Partition(values, i2, j2, pivot)

RECURSIVE floatQuickSort(_, _, _)
floatQuickSort(a, left, right) ==
    IF a.outside THEN a
    ELSE LET pivot == a.values[((left + right) \div 2) + 1]
             p == Partition(a.values, left, right, pivot)
             lower == IF p.outside THEN [values |-> p.values, outside |-> TRUE]
                      ELSE IF left < p.j
                           THEN floatQuickSort([values |-> p.values, outside |-> FALSE],
                                               left, p.j)
                           ELSE [values |-> p.values, outside |-> FALSE]
         IN IF lower.outside THEN lower
            ELSE IF p.i < right THEN floatQuickSort(lower, p.i, right)
                 ELSE lower

\* round() of a scaled non-negative percentage, converted to unsigned int.
RoundPercent(scaled) == (2 * scaled + PERCENT_SCALE) \div (2 * PERCENT_SCALE)

\* A probe that returns the sample at the upper median position.
probeWaterLevelUpperMedian(batch) ==
    LET samples == [i \in 1..WATER_LEVEL_PROBE_SAMPLES |-> probeWaterLevelSample(batch[i])]
        sorted == floatQuickSort([values |-> samples, outside |-> FALSE],
                                 0, WATER_LEVEL_PROBE_SAMPLES - 1)
    IN [samples |-> samples, sorted |-> sorted.values, outside |-> sorted.outside,
        level |-> RoundPercent(sorted.values[(WATER_LEVEL_PROBE_SAMPLES \div 2) + 1])]

\* probeWaterLevel() on a batch of WATER_LEVEL_PROBE_SAMPLES echo durations:
\* the samples as taken, the array after floatQuickSort() and the returned
\* level.
probeWaterLevel(batch) ==
    LET samples == [i \in 1..WATER_LEVEL_PROBE_SAMPLES |-> probeWaterLevelSample(batch[i])]
        sorted == floatQuickSort([values |-> samples, outside |-> FALSE],
                                 0, WATER_LEVEL_PROBE_SAMPLES - 1)
    IN [samples |-> samples, sorted |-> sorted.values, outside |-> sorted.outside,
        level |-> RoundPercent(sorted.values[((WATER_LEVEL_PROBE_SAMPLES \div 2) - 1) + 1])]

\* pollAndUpdate(): the published level and low-level status.
pollAndUpdate(batch) ==
    LET p == probeWaterLevel(batch)
        isLowLevel == p.level <= WATER_LEVEL_LOW_THRESHOLD
    IN [waterLevel |-> p.level,
        statusLowBattery |-> IF isLowLevel THEN 1 ELSE 0,
        probe |-> p]

\* The sensor after its constructor: BatteryLevel(100), StatusLowBattery(0).
TankConstructed ==
    [valuesInitialized |-> FALSE, waterLevel |-> 100, statusLowBattery |-> 0,
     sinceSet |-> 0, polls |-> 0, waits |-> 0,
     last |-> [op |-> "init", batch |-> <<>>, polled |-> FALSE,
               probe |-> [samples |-> <<>>, sorted |-> <<>>, outside |-> FALSE,
                          level |-> 100]]]

\* ------------------------------------------------------------ construction
ErasedEEPROM == [a \in 0..4 |-> EEPROM_ERASED]

\* The durable bytes the device is first started on.
BootFlashes ==
    IF profile = "resume"
    THEN {EEPROM_ADDRESS_SM_ACTIVE :> stored[1]
          @@ EEPROM_ADDRESS_SM_TARGET_HEATER_COOLER_STATE :> stored[2]
          @@ EEPROM_ADDRESS_SM_COOLING_THRESHOLD_TEMPERATURE :> stored[3]
          @@ EEPROM_ADDRESS_SM_HEATING_THRESHOLD_TEMPERATURE :> stored[4]
          @@ EEPROM_ADDRESS_SM_SWING_MODE :> stored[5] : stored \in StoredConfigurations}
    ELSE {ErasedEEPROM}

\* part_001:279-286 reads the store; part_002:243-252 and services.h:182-189
\* assign fixed values.
initializeStateMachineValues(ram) ==
    IF variant = 1
    THEN [Active |-> readEEPROMOrDefault(ram, EEPROM_ADDRESS_SM_ACTIVE, DEFAULT_ACTIVE),
          TargetHeaterCoolerState |->
              readEEPROMOrDefault(ram, EEPROM_ADDRESS_SM_TARGET_HEATER_COOLER_STATE,
                                  DEFAULT_TARGET_HEATER_COOLER_STATE),
          CoolingThresholdTemperature |->
              readEEPROMOrDefault(ram, EEPROM_ADDRESS_SM_COOLING_THRESHOLD_TEMPERATURE,
                                  DEFAULT_THRESHOLD_TEMPERATURE),
          HeatingThresholdTemperature |->
              readEEPROMOrDefault(ram, EEPROM_ADDRESS_SM_HEATING_THRESHOLD_TEMPERATURE,
                                  DEFAULT_THRESHOLD_TEMPERATURE),
          SwingMode |-> readEEPROMOrDefault(ram, EEPROM_ADDRESS_SM_SWING_MODE,
                                            DEFAULT_SWING_MODE)]
    ELSE [Active |-> ACTIVE_INACTIVE,
          TargetHeaterCoolerState |-> TARGET_HEATER_COOLER_STATE_OFF,
          CoolingThresholdTemperature |-> 20,
          HeatingThresholdTemperature |-> 16,
          SwingMode |-> ACTIVE_SWING_MODE_ENABLED]

\* forceHomeKitValuesFromStateMachine(): the published current mode
\* (part_001:292-307, part_002:258-278; services.h:195-211 publishes 0).
forceHomeKitValuesFromStateMachine(smv) ==
    IF variant = 3
    THEN 0
    ELSE convertTargetModeToCurrentMode(smv.Active, smv.TargetHeaterCoolerState)

\* The record describing what a handler did.
Did(op, smBefore, delayBefore) ==
    [op |-> op, nowMillis |-> -1, ranPoll |-> FALSE, ranSM |-> FALSE,
     ranCommit |-> FALSE, ret |-> FALSE, branch |-> "none", ir |-> <<>>,
     wrote |-> FALSE, flushed |-> FALSE,
     smBefore |-> smBefore, delayBefore |-> delayBefore,
     currentBefore |-> -1,
     sinceUpdate |-> -1, sinceTick |-> -1, prevTickDelay |-> -1,
     sinceStage |-> -1,
     dirtyBefore |-> FALSE, dirtyAtCommit |-> FALSE, flashBefore |-> ErasedEEPROM,
     ramBefore |-> ErasedEEPROM, reading |-> <<>>, temperatureBefore |-> -1,
     lastPollBefore |-> -1, lastSMBefore |-> -1, lastCommitBefore |-> -1]

\* A constructor that leaves the desired values at the compiled defaults.
ConstructedWithDefaultDesired(flash, boot, op) ==
    LET ram == flash
        s == initializeStateMachineValues(ram)
        defaults == initializeStateMachineValues(ErasedEEPROM)
    IN [clock |-> boot,
        delay |-> SM_CONVERGE_EVERY_MILLISECONDS,
        sm |-> s,
        hk |-> defaults,
        current |-> forceHomeKitValuesFromStateMachine(defaults),
        ram |-> ram,
        last |-> [Did(op, s, SM_CONVERGE_EVERY_MILLISECONDS) EXCEPT
                     !.flashBefore = flash]]

\* A constructor that never looks at the durable bytes.
ConstructedOnErased(flash, boot, op) ==
    LET s == initializeStateMachineValues(ErasedEEPROM)
    IN [clock |-> boot,
        delay |-> SM_CONVERGE_EVERY_MILLISECONDS,
        sm |-> s,
        hk |-> s,
        current |-> forceHomeKitValuesFromStateMachine(s),
        ram |-> flash,
        last |-> [Did(op, s, SM_CONVERGE_EVERY_MILLISECONDS) EXCEPT
                     !.flashBefore = flash]]

\* The state right after the constructor AirConditionerRemote() ran on the
\* durable bytes flash, the first handler being called at clock value boot.
Constructed(flash, boot, op) ==
    LET ram == flash      \* EEPROM.begin() loads the buffer from flash
        s == initializeStateMachineValues(ram)
    IN [clock |-> boot,
        delay |-> SM_CONVERGE_EVERY_MILLISECONDS,
        sm |-> s,
        hk |-> s,
        current |-> forceHomeKitValuesFromStateMachine(s),
        ram |-> ram,
        last |-> [Did(op, s, SM_CONVERGE_EVERY_MILLISECONDS) EXCEPT
                     !.flashBefore = flash]]

Init ==
    /\ \E cfg \in Configurations : variant = cfg[1] /\ profile = cfg[2]
    /\ \E boot \in BootClocks, flash \in BootFlashes :
         LET c == Constructed(flash, boot, "init")
         IN /\ clock = c.clock
            /\ advances = 0
            /\ lastLoopPollMillis = 0
            /\ lastLoopSMMillis = 0
            /\ lastLoopCommitMillis = 0
            /\ delayLoopSMMillis = c.delay
            /\ hasUncommitedEEPROMChanges = FALSE
            /\ sm = c.sm
            /\ hk = c.hk
            /\ hkCurrentHeaterCoolerState = c.current
            /\ hkCurrentTemperature = 0
            /\ eepromRam = c.ram
            /\ eepromFlash = flash
            /\ last = c.last
    /\ stagedAt = -1
    /\ updatedAt = -1
    /\ tickedAt = -1
    /\ tickedDelay = -1
    /\ userWrites = 0
    /\ restarts = 0
    /\ probe = [op |-> "none"]
    /\ tank = TankConstructed

\* Power loss and restart: the buffer and every field are lost, the durable
\* bytes survive, the constructor runs again.
Restart ==
    /\ restarts < RestartBudget
    /\ restarts' = restarts + 1
    /\ \E boot \in BootClocks :
         LET c == Constructed(eepromFlash, boot, "restart")
         IN /\ clock' = c.clock
            /\ lastLoopPollMillis' = 0
            /\ lastLoopSMMillis' = 0
            /\ lastLoopCommitMillis' = 0
            /\ delayLoopSMMillis' = c.delay
            /\ hasUncommitedEEPROMChanges' = FALSE
            /\ sm' = c.sm
            /\ hk' = c.hk
            /\ hkCurrentHeaterCoolerState' = c.current
            /\ hkCurrentTemperature' = 0
            /\ eepromRam' = c.ram
            /\ last' = [c.last EXCEPT !.smBefore = sm,
                                       !.dirtyBefore = hasUncommitedEEPROMChanges]
    /\ stagedAt' = -1
    /\ updatedAt' = -1
    /\ tickedAt' = -1
    /\ tickedDelay' = -1
    /\ UNCHANGED <<variant, profile, eepromFlash, advances, userWrites, probe,
                   tank>>

\* ------------------------------------------------------------------ update
\* Values the user can give a characteristic (its declared range).
UserValues(field) ==
    CASE field = "Active" -> {ACTIVE_INACTIVE, ACTIVE_ACTIVE}
      [] field = "TargetHeaterCoolerState" -> IF variant = 1 THEN 0..2 ELSE 0..3
      [] field = "CoolingThresholdTemperature" -> UserCoolingChoices
      [] field = "HeatingThresholdTemperature" -> UserHeatingChoices
      [] field = "SwingMode" -> {ACTIVE_SWING_MODE_DISABLED, ACTIVE_SWING_MODE_ENABLED}

\* An update() that sets the interval but not the time of the last tick.
updateKeepsLastRun(nowClock) ==
    [delay |-> SM_WAKE_UP_EVERY_MILLISECONDS, lastSM |-> lastLoopSMMillis]

\* An update() that marks the time but leaves the interval alone.
updateKeepsDelay(nowClock) ==
    [delay |-> delayLoopSMMillis, lastSM |-> nowClock]

\* update(): the new delay and last-tick time of the converge task
\* (part_001:263-277, part_002:227-241; services.h has no update()).
update(nowClock) ==
    IF variant = 3
    THEN [delay |-> delayLoopSMMillis, lastSM |-> lastLoopSMMillis]
    ELSE [delay |-> SM_WAKE_UP_EVERY_MILLISECONDS, lastSM |-> nowClock]

\* The user writes one characteristic; the framework stores the new value and
\* calls update() (revision 3 does not override update()).
UserWrite(field, value) ==
    /\ userWrites < MaxUserWrites
    /\ UserMayWrite
    /\ userWrites' = userWrites + 1
    /\ hk' = [hk EXCEPT ![field] = value]
    /\ LET u == update(clock)
       IN /\ delayLoopSMMillis' = u.delay
          /\ lastLoopSMMillis' = u.lastSM
    /\ updatedAt' = (IF variant = 3 THEN updatedAt ELSE clock)
    /\ last' = [Did("update", sm, delayLoopSMMillis) EXCEPT
                   !.nowMillis = clock,
                   !.currentBefore = hkCurrentHeaterCoolerState,
                   !.dirtyBefore = hasUncommitedEEPROMChanges,
                   !.flashBefore = eepromFlash,
                   !.ramBefore = eepromRam,
                   !.temperatureBefore = hkCurrentTemperature,
                   !.lastPollBefore = lastLoopPollMillis,
                   !.lastSMBefore = lastLoopSMMillis,
                   !.lastCommitBefore = lastLoopCommitMillis]
    /\ UNCHANGED <<variant, profile, clock, advances, lastLoopPollMillis, lastLoopCommitMillis,
                   hasUncommitedEEPROMChanges, hkCurrentHeaterCoolerState,
                   hkCurrentTemperature, sm, eepromRam, eepromFlash, stagedAt,
                   tickedAt, tickedDelay, restarts, probe,
                   tank>>

\* Time passes between two handler calls (loop() is called again before more
\* time passes).
Advance(d) ==
    /\ last.op # "advance"
    /\ advances < MaxAdvances
    /\ advances' = advances + 1
    /\ clock' = clock + d
    /\ last' = [Did("advance", sm, delayLoopSMMillis) EXCEPT
                   !.currentBefore = hkCurrentHeaterCoolerState,
                   !.dirtyBefore = hasUncommitedEEPROMChanges,
                   !.flashBefore = eepromFlash]
    /\ UNCHANGED <<variant, profile, lastLoopPollMillis, lastLoopSMMillis,
                   lastLoopCommitMillis, delayLoopSMMillis,
                   hasUncommitedEEPROMChanges, hk, hkCurrentHeaterCoolerState,
                   hkCurrentTemperature, sm, eepromRam, eepromFlash, stagedAt,
                   updatedAt, tickedAt, tickedDelay, userWrites, restarts, probe,
                   tank>>

\* -------------------------------------------------------------------- tasks
\* acquireTemperatureValue(): -1 for a failed read.
acquireTemperatureValue(reading) == IF reading = <<>> THEN -1 ELSE reading[1]

\* A poll task that publishes whatever was acquired.
tickTaskPollPublishesAll(reading, published) == acquireTemperatureValue(reading)

\* tickTaskPoll(): the published temperature after the poll task
\* (part_001:323-340, part_002:280-292, services.h:213-219).
tickTaskPoll(reading, published) ==
    LET currentTemperature == acquireTemperatureValue(reading)
    IN IF variant = 1
       THEN IF currentTemperature >= RANGE_TEMPERATURE_CURRENT_MINIMUM
               /\ currentTemperature <= RANGE_TEMPERATURE_CURRENT_MAXIMUM
            THEN currentTemperature ELSE published
       ELSE IF variant = 2
       THEN IF currentTemperature >= 0 THEN currentTemperature ELSE published
       ELSE 21

\* A writeEEPROM() that marks the store dirty without storing the byte.
writeEEPROMFlagOnly(st, address, value, nowClock) ==
    [lastCommit |-> nowClock, dirty |-> TRUE, ram |-> st.ram]

\* writeEEPROM(address, value) called when millis() reads nowClock, on the
\* store state st = [lastCommit, dirty, ram].
writeEEPROM(st, address, value, nowClock) ==
    [lastCommit |-> nowClock,
     dirty |-> TRUE,
     ram |-> EEPROMWrite(st.ram, address, value)]

RECURSIVE ApplyWrites(_, _, _)
ApplyWrites(st, writes, nowClock) ==
    IF writes = <<>> THEN st
    ELSE ApplyWrites(writeEEPROM(st, Head(writes)[1], Head(writes)[2], nowClock),
                     Tail(writes), nowClock)

\* A commit task that clears the flag and flushes nothing.
tickTaskCommitClearsOnly(dirty, ram, flash) ==
    IF dirty = TRUE
    THEN [dirty |-> FALSE, flash |-> flash, flushed |-> TRUE]
    ELSE [dirty |-> dirty, flash |-> flash, flushed |-> FALSE]

\* A commit task that flushes but leaves the flag set.
tickTaskCommitKeepsFlag(dirty, ram, flash) ==
    IF dirty = TRUE
    THEN [dirty |-> TRUE, flash |-> ram, flushed |-> TRUE]
    ELSE [dirty |-> dirty, flash |-> flash, flushed |-> FALSE]

\* tickTaskCommit() on dirty flag, buffer and durable bytes.
tickTaskCommit(dirty, ram, flash) ==
    IF dirty = TRUE
    THEN [dirty |-> FALSE, flash |-> ram, flushed |-> TRUE]
    ELSE [dirty |-> dirty, flash |-> flash, flushed |-> FALSE]

\* The converge tick of the running revision.
RunTickTaskSM ==
    IF variant = 1 THEN tickTaskSM(hk, sm, hkCurrentHeaterCoolerState)
    ELSE IF variant = 2 THEN tickTaskSMR2(hk, sm, hkCurrentHeaterCoolerState)
    ELSE tickTaskSMR3(hk, sm, hkCurrentHeaterCoolerState)

\* The three due checks of loop().
PollDue(nowMillis, lastPoll) ==
    Sub32(nowMillis, lastPoll) >= POLL_EVERY_MILLISECONDS

\* A due check that always uses the short interval.
SMDueIgnoresDelay(nowMillis, lastSM, delay) ==
    Sub32(nowMillis, lastSM) >= SM_CONVERGE_EVERY_MILLISECONDS

SMDue(nowMillis, lastSM, delay) == Sub32(nowMillis, lastSM) >= delay

CommitDue(nowMillis, lastCommit) ==
    variant = 1 /\ Sub32(nowMillis, lastCommit) >= COMMIT_EVERY_MILLISECONDS

\* A scheduler that never goes to sleep.
NextDelayAlwaysShort(ret) == SM_CONVERGE_EVERY_MILLISECONDS

\* The interval loop() sets after a tick that returned ret.
NextDelay(ret) ==
    IF ret = TRUE THEN SM_WAKE_UP_EVERY_MILLISECONDS
    ELSE SM_CONVERGE_EVERY_MILLISECONDS

\* One pass of loop().  nowMillis is read once at entry; d is the time the
\* pass has taken when writeEEPROM() reads millis() again (and the duration
\* of the pass); reading is what the temperature sensor returns.
Loop(d, reading) ==
    /\ d > 0 => advances < MaxAdvances
    /\ advances' = (IF d > 0 THEN advances + 1 ELSE advances)
    /\ \E nowMillis \in {clock} :
       \E pollDue \in {PollDue(nowMillis, lastLoopPollMillis)} :
       \E smDue \in {SMDue(nowMillis, lastLoopSMMillis, delayLoopSMMillis)} :
       \E t \in {IF smDue THEN RunTickTaskSM
                 ELSE TickResult(sm, <<>>, <<>>, hkCurrentHeaterCoolerState,
                                 FALSE, "none")} :
       \E st \in {ApplyWrites([lastCommit |-> lastLoopCommitMillis,
                               dirty |-> hasUncommitedEEPROMChanges,
                               ram |-> eepromRam],
                              t.writes, nowMillis + d)} :
       \E commitDue \in {CommitDue(nowMillis, st.lastCommit)} :
       \E c \in {IF commitDue THEN tickTaskCommit(st.dirty, st.ram, eepromFlash)
                 ELSE [dirty |-> st.dirty, flash |-> eepromFlash,
                       flushed |-> FALSE]} :
       \E wrote \in {t.writes # <<>>} :
       \E staged \in {IF wrote THEN nowMillis + d ELSE stagedAt} :
          /\ clock' = clock + d
          /\ hkCurrentTemperature' =
                 (IF pollDue THEN tickTaskPoll(reading, hkCurrentTemperature)
                  ELSE hkCurrentTemperature)
          /\ lastLoopPollMillis' = (IF pollDue THEN nowMillis ELSE lastLoopPollMillis)
          /\ sm' = t.sm
          /\ hkCurrentHeaterCoolerState' = t.current
          /\ delayLoopSMMillis' = (IF smDue THEN NextDelay(t.ret) ELSE delayLoopSMMillis)
          /\ lastLoopSMMillis' = (IF smDue THEN nowMillis ELSE lastLoopSMMillis)
          /\ eepromRam' = st.ram
          /\ hasUncommitedEEPROMChanges' = c.dirty
          /\ eepromFlash' = c.flash
          /\ lastLoopCommitMillis' = (IF commitDue THEN nowMillis ELSE st.lastCommit)
          /\ stagedAt' = staged
          /\ tickedAt' = (IF smDue THEN nowMillis ELSE tickedAt)
          /\ tickedDelay' = (IF smDue THEN NextDelay(t.ret) ELSE tickedDelay)
          /\ last' = [op |-> "loop", nowMillis |-> nowMillis,
                      ranPoll |-> pollDue, ranSM |-> smDue, ranCommit |-> commitDue,
                      ret |-> t.ret, branch |-> t.branch, ir |-> t.ir,
                      wrote |-> wrote, flushed |-> c.flushed,
                      smBefore |-> sm, delayBefore |-> delayLoopSMMillis,
                      currentBefore |-> hkCurrentHeaterCoolerState,
                      sinceUpdate |-> IF smDue /\ updatedAt # -1
                                      THEN nowMillis - updatedAt ELSE -1,
                      sinceTick |-> IF smDue /\ tickedAt # -1
                                    THEN nowMillis - tickedAt ELSE -1,
                      prevTickDelay |-> IF smDue THEN tickedDelay ELSE -1,
                      sinceStage |-> IF c.flushed THEN (clock + d) - staged ELSE -1,
                      dirtyBefore |-> hasUncommitedEEPROMChanges,
                      dirtyAtCommit |-> commitDue /\ st.dirty,
                      flashBefore |-> eepromFlash,
                      ramBefore |-> eepromRam,
                      reading |-> IF pollDue THEN reading ELSE <<>>,
                      temperatureBefore |-> hkCurrentTemperature,
                      lastPollBefore |-> lastLoopPollMillis,
                      lastSMBefore |-> lastLoopSMMillis,
                      lastCommitBefore |-> lastLoopCommitMillis]
    /\ UNCHANGED <<variant, profile, hk, updatedAt, userWrites, restarts, probe,
                   tank>>

Next ==
    \/ \E d \in LoopDurations, reading \in SensorReadings : Loop(d, reading)
    \/ \E field \in UserFields : \E value \in UserValues(field) : UserWrite(field, value)
    \/ \E d \in AdvanceSteps : Advance(d)
    \/ Restart

Spec == Init /\ [][Next]_vars

\* The device that is never restarted and whose loop() keeps being called
\* while the clock advances: HomeSpan's poll() calls loop() of every service
\* on each pass of the Arduino main loop (part_001:212-261), and millis()
\* advances between passes.
InitLive == Init /\ profile = "live"

LoopPass == \E d \in LoopDurations, reading \in SensorReadings : Loop(d, reading)

ClockAdvance == \E d \in AdvanceSteps : Advance(d)

NextLive ==
    \/ LoopPass
    \/ \E field \in UserFields : \E value \in UserValues(field) : UserWrite(field, value)
    \/ ClockAdvance

SpecLive == InitLive /\ [][NextLive]_vars /\ WF_vars(LoopPass) /\ WF_vars(ClockAdvance)

\* ------------------------------------------------------------- type invariant
TypeOK ==
    /\ variant \in Variants
    /\ clock \in Nat
    /\ delayLoopSMMillis \in Nat
    /\ hasUncommitedEEPROMChanges \in BOOLEAN
    /\ DOMAIN sm = Fields
    /\ DOMAIN hk = Fields

\* ------------------------------------------------------------------- calls
\* A second specification: the functions of the class are called one at a
\* time on inputs drawn from bounded sets; probe holds the arguments of the
\* call and what it returned; one call is made from the constructed service,
\* which stays as constructed.
StoredBytes == {0, 1, 2, 18, 32, 254, 255}
OlderBytes == {0, 18, 255}
DefaultValues == {DEFAULT_ACTIVE, DEFAULT_TARGET_HEATER_COOLER_STATE,
                  DEFAULT_THRESHOLD_TEMPERATURE, DEFAULT_SWING_MODE}
CurrentStates == 0..33
Increments == {-1, 1}
ForeignValues == {7, 40}
MaxTicks == 6
TickedConfigurations == {<<0, 2, 20, 16, 1>>, <<1, 2, 20, 16, 1>>, <<1, 1, 20, 16, 1>>}
DesiredCoolingChoices == {18, 20, 24}

machine == <<variant, clock, lastLoopPollMillis, lastLoopSMMillis,
             lastLoopCommitMillis, delayLoopSMMillis, hasUncommitedEEPROMChanges,
             hk, hkCurrentHeaterCoolerState, hkCurrentTemperature, sm,
             eepromRam, eepromFlash, last, stagedAt, updatedAt, tickedAt,
             tickedDelay, advances, profile, userWrites, restarts>>

\* The array, its size constant and the circle argument tickTaskSM() passes
\* for each field (part_001:342-445).
StatesOf(field) ==
    CASE field = "Active" -> STATES_DIRECTION_ACTIVE
      [] field = "TargetHeaterCoolerState" -> STATES_DIRECTION_TARGET_HEATER_COOLER_STATE
      [] field = "CoolingThresholdTemperature" -> STATES_COOLING_THRESHOLD_TEMPERATURE
      [] field = "HeatingThresholdTemperature" -> STATES_HEATING_THRESHOLD_TEMPERATURE
      [] field = "SwingMode" -> STATES_SWING_MODE

SizeOf(field) ==
    CASE field = "Active" -> SIZE_DIRECTION_ACTIVE
      [] field = "TargetHeaterCoolerState" -> SIZE_DIRECTION_TARGET_HEATER_COOLER_STATE
      [] field = "CoolingThresholdTemperature" -> SIZE_DIRECTION_COOLING_THRESHOLD_TEMPERATURE
      [] field = "HeatingThresholdTemperature" -> SIZE_DIRECTION_HEATING_THRESHOLD_TEMPERATURE
      [] field = "SwingMode" -> SIZE_DIRECTION_SWING_MODE

\* readEEPROMOrDefault(address, defaultValue) on a buffer holding savedValue.
CallReadEEPROMOrDefault(savedValue, address, defaultValue) ==
    /\ probe.op = "none"
    /\ variant = 1
    /\ probe' = [op |-> "readEEPROMOrDefault",
                 in |-> [savedValue |-> savedValue, address |-> address,
                         defaultValue |-> defaultValue],
                 out |-> readEEPROMOrDefault(
                             EEPROMWrite(ErasedEEPROM, address, savedValue),
                             address, defaultValue)]
    /\ UNCHANGED <<machine, tank>>

\* initializeStateMachineValues() on a buffer whose bytes are either erased
\* or those of a stored configuration.
CallInitializeStateMachineValues(stored, erased) ==
    /\ probe.op = "none"
    /\ variant = 1
    /\ LET ram == [a \in 0..4 |-> IF a \in erased THEN EEPROM_ERASED
                                   ELSE stored[a + 1]]
       IN probe' = [op |-> "initializeStateMachineValues",
                    in |-> ram,
                    out |-> initializeStateMachineValues(ram)]
    /\ UNCHANGED <<machine, tank>>

\* writeEEPROM(address, value) on a clean store whose byte at address is
\* older, then, optionally, tickTaskCommit(), then
\* readEEPROMOrDefault(address, defaultValue).
CallWriteEEPROM(address, value, older, defaultValue, commit) ==
    /\ probe.op = "none"
    /\ variant = 1
    /\ LET flash == EEPROMWrite(ErasedEEPROM, address, older)
           st == writeEEPROM([lastCommit |-> 0, dirty |-> FALSE, ram |-> flash],
                             address, value, clock)
           c == IF commit THEN tickTaskCommit(st.dirty, st.ram, flash)
                ELSE [dirty |-> st.dirty, flash |-> flash, flushed |-> FALSE]
       IN probe' = [op |-> "writeEEPROM",
                    in |-> [address |-> address, value |-> value, older |-> older,
                            defaultValue |-> defaultValue, commit |-> commit],
                    out |-> [read |-> readEEPROMOrDefault(st.ram, address, defaultValue),
                             durable |-> c.flash[address],
                             dirty |-> c.dirty,
                             lastCommit |-> st.lastCommit]]
    /\ UNCHANGED <<machine, tank>>

\* progressNextState() on the array of one field; revision 2 has no circle
\* argument (it always wraps).
CallProgressNextState(field, currentState, increment, circle) ==
    /\ probe.op = "none"
    /\ variant \in {1, 2}
    /\ variant = 2 => circle
    /\ probe' = [op |-> "progressNextState",
                 in |-> [field |-> field, statesCircle |-> StatesOf(field),
                         statesCircleSize |-> SizeOf(field),
                         currentState |-> currentState,
                         increment |-> increment, circle |-> circle],
                 out |-> IF variant = 1
                         THEN progressNextState(StatesOf(field), SizeOf(field),
                                                currentState, increment, circle)
                         ELSE progressNextStateR2(StatesOf(field), SizeOf(field),
                                                  currentState, increment)]
    /\ UNCHANGED <<machine, tank>>

\* tickTaskSM() on a confirmed configuration in which one field holds a
\* value foreign to its array, the desired value of that field being in
\* range (the confirmed values come from the store: revision 1).
CallTickTaskSM(stored, field, foreign, desired) ==
    /\ probe.op = "none"
    /\ variant = 1
    /\ LET hkv == [Active |-> stored[1], TargetHeaterCoolerState |-> stored[2],
                   CoolingThresholdTemperature |-> stored[3],
                   HeatingThresholdTemperature |-> stored[4],
                   SwingMode |-> stored[5]]
           smv == [hkv EXCEPT ![field] = foreign]
           hkw == [hkv EXCEPT ![field] = desired]
       IN probe' = [op |-> "tickTaskSM",
                    in |-> [field |-> field, hk |-> hkw, sm |-> smv],
                    out |-> tickTaskSM(hkw, smv,
                                convertTargetModeToCurrentMode(smv.Active,
                                    smv.TargetHeaterCoolerState))]
    /\ UNCHANGED <<machine, tank>>

\* Consecutive ticks that each start from the first tick's confirmed values.
TickTraceFromStart(hkv, smv, cur, n) ==
    [i \in 1..n |-> tickTaskSM(hkv, smv, cur)]

\* The results of n consecutive tickTaskSM() calls, the desired values hkv
\* staying as they are: each call runs on what the one before left in the sm
\* fields and in the published current mode (loop(), part_001:236-247).
RECURSIVE TickTrace(_, _, _, _)
TickTrace(hkv, smv, cur, n) ==
    IF n = 0 THEN <<>>
    ELSE LET r == tickTaskSM(hkv, smv, cur)
         IN <<r>> \o TickTrace(hkv, r.sm, r.current, n - 1)

\* n consecutive ticks from a confirmed configuration, the user having set
\* power and cooling setpoint.
CallConsecutiveTicks(stored, power, cooling, n) ==
    /\ probe.op = "none"
    /\ variant = 1
    /\ LET smv == [Active |-> stored[1], TargetHeaterCoolerState |-> stored[2],
                   CoolingThresholdTemperature |-> stored[3],
                   HeatingThresholdTemperature |-> stored[4],
                   SwingMode |-> stored[5]]
           hkv == [smv EXCEPT !.Active = power,
                              !.CoolingThresholdTemperature = cooling]
       IN probe' = [op |-> "consecutiveTicks",
                    in |-> [hk |-> hkv, sm |-> smv, n |-> n],
                    out |-> TickTrace(hkv, smv,
                                convertTargetModeToCurrentMode(smv.Active,
                                    smv.TargetHeaterCoolerState), n)]
    /\ UNCHANGED <<machine, tank>>

\* Confirmed configurations a run of ticks may start from (every mode of the
\* cycle, setpoints at both ends of their sequences and inside them) and the
\* desired configurations the user may have set.
MaxConvergeTicks == 22
ConvergeConfirmed ==
    {<<a, t, c, h, s>> : a \in {ACTIVE_INACTIVE, ACTIVE_ACTIVE}, t \in 0..4,
                         c \in {18, 25, 32}, h \in {13, 27}, s \in {0, 1}}
ConvergeDesired ==
    {<<a, t, c, h, s>> : a \in {ACTIVE_INACTIVE, ACTIVE_ACTIVE}, t \in {0, 1, 2},
                         c \in {18, 19, 32}, h \in {13, 27}, s \in {0, 1}}

ConfigurationOf(v) ==
    [Active |-> v[1], TargetHeaterCoolerState |-> v[2],
     CoolingThresholdTemperature |-> v[3],
     HeatingThresholdTemperature |-> v[4], SwingMode |-> v[5]]

\* MaxConvergeTicks consecutive ticks from a confirmed configuration, the
\* desired configuration staying as the user set it.
CallConverge(confirmed, desired) ==
    /\ probe.op = "none"
    /\ variant = 1
    /\ LET smv == ConfigurationOf(confirmed)
           hkv == ConfigurationOf(desired)
       IN probe' = [op |-> "converge",
                    in |-> [hk |-> hkv, sm |-> smv, n |-> MaxConvergeTicks],
                    out |-> TickTrace(hkv, smv,
                                convertTargetModeToCurrentMode(smv.Active,
                                    smv.TargetHeaterCoolerState),
                                MaxConvergeTicks)]
    /\ UNCHANGED <<machine, tank>>

\* Durable bytes a start-up may find at each of the five addresses: values of
\* the sequences, values of no sequence, and the erased byte.
StartupBytes == {0, 1, 18, 254, 255}
MaxStartupTicks == 3

\* The constructor on the durable bytes flash, followed by MaxStartupTicks
\* ticks with no update() in between.
CallStartup(flash) ==
    /\ probe.op = "none"
    /\ variant = 1
    /\ LET c == Constructed(flash, INITIALIZE_HOLD_MILLISECONDS, "init")
       IN probe' = [op |-> "startup",
                    in |-> [flash |-> flash],
                    out |-> [sm |-> c.sm, hk |-> c.hk, current |-> c.current,
                             ram |-> c.ram,
                             ticks |-> TickTrace(c.hk, c.sm, c.current,
                                                 MaxStartupTicks)]]
    /\ UNCHANGED <<machine, tank>>

\* Durable bytes a run starts on: erased, committed by an earlier run, or
\* bytes of no sequence.
MaxRoundTripTicks == 4
RoundTripFlashes ==
    {ErasedEEPROM, [a \in 0..4 |-> 254]}
    \cup {[a \in 0..4 |-> stored[a + 1]] : stored \in StoredConfigurations}

\* The writes that the ticks of a trace staged, in order.
RECURSIVE TraceWrites(_)
TraceWrites(trace) ==
    IF trace = <<>> THEN <<>>
    ELSE Head(trace).writes \o TraceWrites(Tail(trace))

\* Start on flash, n ticks toward desired, each staging with writeEEPROM(),
\* then tickTaskCommit(), a power loss, and the constructor again.
CallRoundTrip(flash, desired, n) ==
    /\ probe.op = "none"
    /\ variant = 1
    /\ LET c == Constructed(flash, INITIALIZE_HOLD_MILLISECONDS, "init")
           trace == TickTrace(ConfigurationOf(desired), c.sm, c.current, n)
           st == ApplyWrites([lastCommit |-> 0, dirty |-> FALSE, ram |-> c.ram],
                             TraceWrites(trace), clock)
           k == tickTaskCommit(st.dirty, st.ram, flash)
           again == Constructed(k.flash, INITIALIZE_HOLD_MILLISECONDS, "restart")
       IN probe' = [op |-> "roundTrip",
                    in |-> [flash |-> flash, desired |-> desired, n |-> n],
                    out |-> [staged |-> TraceWrites(trace),
                             confirmed |-> trace[n].sm,
                             durable |-> k.flash,
                             reloaded |-> again.sm]]
    /\ UNCHANGED <<machine, tank>>

\* The results of n consecutive tickTaskSM() calls of revision 2, the desired
\* values staying as they are (loop(), part_002:189-225).
RECURSIVE TickTraceR2(_, _, _, _)
TickTraceR2(hkv, smv, cur, n) ==
    IF n = 0 THEN <<>>
    ELSE LET r == tickTaskSMR2(hkv, smv, cur)
         IN <<r>> \o TickTraceR2(hkv, r.sm, r.current, n - 1)

\* Revision 2 with power Active and mode matched on Cool (2) or Heat (1): the
\* setpoint owned by the mode starts at the offset-th degree of its declared
\* range, the user has set it to the desired-th degree, and MaxTicksR2 ticks
\* follow.  Confirmed setpoints are those revision 2 can hold (the first 14
\* entries of the array), desired ones any degree of the declared range.
MaxTicksR2 == 30
CallConvergeR2(mode, offset, desired) ==
    /\ probe.op = "none"
    /\ variant = 2
    /\ LET f == IF mode = TARGET_HEATER_COOLER_STATE_COOL
                THEN "CoolingThresholdTemperature"
                ELSE "HeatingThresholdTemperature"
           low == IF mode = TARGET_HEATER_COOLER_STATE_COOL
                  THEN RANGE_TEMPERATURE_COOL_MINIMUM
                  ELSE RANGE_TEMPERATURE_HEAT_MINIMUM
           smv == [[Active |-> ACTIVE_ACTIVE,
                    TargetHeaterCoolerState |-> mode,
                    CoolingThresholdTemperature |-> 20,
                    HeatingThresholdTemperature |-> 16,
                    SwingMode |-> ACTIVE_SWING_MODE_ENABLED]
                   EXCEPT ![f] = low + offset]
           hkv == [smv EXCEPT ![f] = low + desired]
       IN probe' = [op |-> "convergeR2",
                    in |-> [hk |-> hkv, sm |-> smv, field |-> f, n |-> MaxTicksR2],
                    out |-> TickTraceR2(hkv, smv,
                                convertTargetModeToCurrentMode(smv.Active,
                                    smv.TargetHeaterCoolerState),
                                MaxTicksR2)]
    /\ UNCHANGED <<machine, tank>>

\* ---- the due checks at full width
\* An unsigned int of the target (32 bits) as its two 16-bit halves, so that
\* values up to 2^32 - 1 and differences modulo 2^32 are computed exactly.
WORD32_HALF == 65536

Word32Of(n) == [hi |-> n \div WORD32_HALF, lo |-> n % WORD32_HALF]

\* a + n modulo 2^32, for an unsigned int a and 0 <= n < 2^31.
Word32Add(a, n) ==
    LET lo == a.lo + (n % WORD32_HALF)
        hi == a.hi + (n \div WORD32_HALF) + (lo \div WORD32_HALF)
    IN [hi |-> hi % WORD32_HALF, lo |-> lo % WORD32_HALF]

\* a - b modulo 2^32 of two unsigned ints.
Word32Sub(a, b) ==
    LET borrow == IF a.lo < b.lo THEN 1 ELSE 0
    IN [hi |-> (a.hi - b.hi - borrow + 2 * WORD32_HALF) % WORD32_HALF,
        lo |-> (a.lo - b.lo + WORD32_HALF) % WORD32_HALF]

\* (unsigned) a >= n for an interval constant 0 <= n < 2^31.
Word32GreaterEq(a, n) ==
    \/ a.hi > n \div WORD32_HALF
    \/ a.hi = n \div WORD32_HALF /\ a.lo >= n % WORD32_HALF

\* A due check that compares the clock with last + interval without
\* reducing the sum modulo 2^32.
LoopTaskDueBySum(nowMillis, lastMillis, interval) ==
    LET lo == lastMillis.lo + (interval % WORD32_HALF)
        hi == lastMillis.hi + (interval \div WORD32_HALF) + (lo \div WORD32_HALF)
    IN \/ nowMillis.hi > hi
       \/ nowMillis.hi = hi /\ nowMillis.lo >= lo % WORD32_HALF

\* if ((nowMillis - lastLoop...Millis) >= interval) of loop(), on unsigned ints.
LoopTaskDue(nowMillis, lastMillis, interval) ==
    Word32GreaterEq(Word32Sub(nowMillis, lastMillis), interval)

\* Clock values at which a task last ran (or update() was called): shortly
\* after start and shortly before millis() wraps around.
LastClocks ==
    {Word32Of(0), Word32Of(INITIALIZE_HOLD_MILLISECONDS)}
    \cup {Word32Sub(Word32Of(0), Word32Of(back)) :
             back \in {1, 50, 100, 999, 1000, 29999, 30000, 40000}}

\* Milliseconds between that moment and the loop() pass.
ElapsedTimes == {0, 1, 99, 100, 101, 999, 1000, 1001, 29999, 30000, 30001, 60000}

\* The intervals of the poll task and of the converge task (revision 1).
TaskIntervals ==
    [poll |-> POLL_EVERY_MILLISECONDS, converge |-> 100, wakeUp |-> 1000]

\* One due check of loop(): the task last ran (or update() set
\* lastLoopSMMillis) at clock value lastMillis, and loop() is entered elapsed
\* milliseconds later.
CallLoopTaskDue(task, lastMillis, elapsed) ==
    /\ probe.op = "none"
    /\ variant = 1
    /\ LET nowMillis == Word32Add(lastMillis, elapsed)
       IN probe' = [op |-> "loopTaskDue",
                    in |-> [task |-> task, lastMillis |-> lastMillis,
                            elapsed |-> elapsed, nowMillis |-> nowMillis],
                    out |-> LoopTaskDue(nowMillis, lastMillis, TaskIntervals[task])]
    /\ UNCHANGED <<machine, tank>>

InitCalls == Init /\ profile = "engine" /\ variant \in {1, 2}

NextCalls ==
    \/ \E savedValue \in StoredBytes, address \in 0..4, defaultValue \in DefaultValues :
          CallReadEEPROMOrDefault(savedValue, address, defaultValue)
    \/ \E stored \in StoredConfigurations, erased \in SUBSET (0..4) :
          CallInitializeStateMachineValues(stored, erased)
    \/ \E address \in 0..4, value \in StoredBytes, older \in OlderBytes,
          defaultValue \in DefaultValues, commit \in BOOLEAN :
          CallWriteEEPROM(address, value, older, defaultValue, commit)
    \/ \E field \in Fields, currentState \in CurrentStates,
          increment \in Increments, circle \in BOOLEAN :
          CallProgressNextState(field, currentState, increment, circle)
    \/ \E stored \in StoredConfigurations, field \in Fields,
          foreign \in ForeignValues :
          \E desired \in UserValues(field) :
             CallTickTaskSM(stored, field, foreign, desired)
    \/ \E stored \in TickedConfigurations, power \in {ACTIVE_INACTIVE, ACTIVE_ACTIVE},
          cooling \in DesiredCoolingChoices, n \in 1..MaxTicks :
          CallConsecutiveTicks(stored, power, cooling, n)
    \/ \E confirmed \in ConvergeConfirmed, desired \in ConvergeDesired :
          CallConverge(confirmed, desired)
    \/ \E flash \in [0..4 -> StartupBytes] : CallStartup(flash)
    \/ \E flash \in RoundTripFlashes, desired \in ConvergeDesired,
          n \in 1..MaxRoundTripTicks :
          CallRoundTrip(flash, desired, n)
    \/ \E mode \in {TARGET_HEATER_COOLER_STATE_COOL, TARGET_HEATER_COOLER_STATE_HEAT},
          offset \in 0..13, desired \in 0..14 :
          CallConvergeR2(mode, offset, desired)
    \/ \E task \in DOMAIN TaskIntervals, lastMillis \in LastClocks,
          elapsed \in ElapsedTimes :
          CallLoopTaskDue(task, lastMillis, elapsed)

SpecCalls == InitCalls /\ [][NextCalls]_vars

\* ------------------------------------------------------- water tank sensor
\* A third specification: the level sensor alone.  Its loop() is called after
\* clock advances; a pass that probes draws a batch of echo durations.
MaxTankPolls == 2
MaxTankWaits == 3
TankTimeSteps == {1, TANK_POLL_EVERY_MILLISECONDS}

\* Echo durations in microseconds: a timeout (0), echoes from above the full
\* mark, from inside the tank and from below the empty mark.
TankDurations == <<0, 30, 58, 300, 873, 1353, 1362, 1400, 1687, 1688, 30000>>

\* Batches of ten different durations in many orders (ascending, descending
\* and interleaved), batches with a number of failed samples at either end,
\* batches with repeated values, and all batches of two values.
PermutedBatches ==
    {[i \in 1..WATER_LEVEL_PROBE_SAMPLES |-> TankDurations[((i * k + m) % 11) + 1]] :
        k \in 1..10, m \in 0..10}

FailingBatches ==
    {[i \in 1..WATER_LEVEL_PROBE_SAMPLES |-> IF i \in F THEN 0 ELSE 873 + i] :
        F \in {1..f : f \in 0..10} \cup {(11 - f)..10 : f \in 0..10}}

RepeatingBatches ==
    {[i \in 1..WATER_LEVEL_PROBE_SAMPLES |-> IF i % n = 0 THEN a ELSE b] :
        n \in 1..3, a \in {0, 300, 1400}, b \in {873, 1400}}

\* Every batch of failed readings and echoes from a half full tank, and every
\* batch of five runs of two equal readings out of three.
TwoValuedBatches == [1..WATER_LEVEL_PROBE_SAMPLES -> {0, 873}]

PairedBatches ==
    {[i \in 1..WATER_LEVEL_PROBE_SAMPLES |-> runs[(i + 1) \div 2]] :
        runs \in [1..(WATER_LEVEL_PROBE_SAMPLES \div 2) -> {0, 873, 1400}]}

TankBatches ==
    PermutedBatches \cup FailingBatches \cup RepeatingBatches
    \cup TwoValuedBatches \cup PairedBatches

\* The first probe after start-up draws from all batches, later probes from
\* the repeating ones.
TankBatchesNow == IF tank.polls = 0 THEN TankBatches ELSE RepeatingBatches

\* Time passes between two calls of the sensor's loop().
TankAdvance(d) ==
    /\ tank.last.op # "advance"
    /\ tank.waits < MaxTankWaits
    /\ tank' = [tank EXCEPT !.sinceSet = @ + d, !.waits = @ + 1,
                            !.last = [@ EXCEPT !.op = "advance", !.polled = FALSE]]
    /\ UNCHANGED <<machine, probe>>

\* A loop() that already probes when exactly the interval has elapsed.
TankLoopAtInterval(batch) ==
    /\ tank.polls < MaxTankPolls
    /\ IF tank.valuesInitialized = FALSE \/ tank.sinceSet >= TANK_POLL_EVERY_MILLISECONDS
       THEN LET u == pollAndUpdate(batch)
            IN tank' = [tank EXCEPT !.valuesInitialized = TRUE,
                                    !.waterLevel = u.waterLevel,
                                    !.statusLowBattery = u.statusLowBattery,
                                    !.sinceSet = 0,
                                    !.polls = @ + 1,
                                    !.last = [op |-> "loop", batch |-> batch,
                                              polled |-> TRUE, probe |-> u.probe]]
       ELSE /\ tank.last.op # "loop"
            /\ tank' = [tank EXCEPT !.last = [@ EXCEPT !.op = "loop",
                                                       !.polled = FALSE]]
    /\ UNCHANGED <<machine, probe>>

\* One pass of WaterTankLevelSensor::loop() (part_000:40-55); batch is what
\* pulseIn() returns to the ten samples if the pass probes.
TankLoop(batch) ==
    /\ tank.polls < MaxTankPolls
    /\ IF tank.valuesInitialized = FALSE \/ tank.sinceSet > TANK_POLL_EVERY_MILLISECONDS
       THEN LET u == pollAndUpdate(batch)
            IN tank' = [tank EXCEPT !.valuesInitialized = TRUE,
                                    !.waterLevel = u.waterLevel,
                                    !.statusLowBattery = u.statusLowBattery,
                                    !.sinceSet = 0,
                                    !.polls = @ + 1,
                                    !.last = [op |-> "loop", batch |-> batch,
                                              polled |-> TRUE, probe |-> u.probe]]
       ELSE /\ tank.last.op # "loop"
            /\ tank' = [tank EXCEPT !.last = [@ EXCEPT !.op = "loop",
                                                       !.polled = FALSE]]
    /\ UNCHANGED <<machine, probe>>

InitTank == Init /\ profile = "engine" /\ variant = 1

NextTank ==
    \/ \E batch \in TankBatchesNow : TankLoop(batch)
    \/ \E d \in TankTimeSteps : TankAdvance(d)

SpecTank == InitTank /\ [][NextTank]_vars

\* ================================================================ properties
\* The last handler was a loop() pass in which the converge tick ran.
Ticked == last.op = "loop" /\ last.ranSM

\* Confirmed fields the last handler changed, and fields on which desired and
\* confirmed differed when it was entered (no loop() pass changes a desired
\* value).
ChangedFields == {f \in Fields : sm[f] # last.smBefore[f]}

MismatchedAtEntry == {f \in Fields : hk[f] # last.smBefore[f]}

\* The setpoint gate stated on the entry values: confirmed power Active and
\* confirmed mode other than the one numbered 0 (Auto in revision 1).
GateOpenAtEntry ==
    /\ last.smBefore.Active = 1
    /\ last.smBefore.TargetHeaterCoolerState # 0

TemperatureWords == {IR_COMMAND_TEMPERATURE_INCREASE, IR_COMMAND_TEMPERATURE_DECREASE}

EmittedWords == {last.ir[i] : i \in 1..Len(last.ir)}

\* ----------------------------------------------------------------------- C1
\* C1: in revisions 1 and 2, every converge tick either returns false after
\* changing exactly one confirmed field and emitting exactly one signal, or
\* returns true after changing no field and emitting no signal.
C1_OneActionPerTick ==
    (Ticked /\ variant \in {1, 2}) =>
        \/ /\ last.ret = FALSE
           /\ Cardinality(ChangedFields) = 1
           /\ Len(last.ir) = 1
        \/ /\ last.ret = TRUE
           /\ ChangedFields = {}
           /\ Len(last.ir) = 0

\* A tick entered with two mismatches that changed one field with one signal.
C1_Witness ==
    /\ Ticked
    /\ variant = 2
    /\ Cardinality(MismatchedAtEntry) >= 2
    /\ last.ret = FALSE
    /\ Cardinality(ChangedFields) = 1
    /\ Len(last.ir) = 1

\* ----------------------------------------------------------------------- C2
Priority ==
    <<"Active", "TargetHeaterCoolerState", "CoolingThresholdTemperature",
      "HeatingThresholdTemperature", "SwingMode">>

\* A mismatch the tick may act on: power and mode always, a setpoint in its
\* owning mode behind the gate, swing behind the gate.
EligibleAtEntry(f) ==
    /\ f \in MismatchedAtEntry
    /\ CASE f = "CoolingThresholdTemperature" ->
                GateOpenAtEntry /\ last.smBefore.TargetHeaterCoolerState = 2
         [] f = "HeatingThresholdTemperature" ->
                GateOpenAtEntry /\ last.smBefore.TargetHeaterCoolerState = 1
         [] f = "SwingMode" -> GateOpenAtEntry
         [] OTHER -> TRUE

\* C2: in revisions 1 and 3, the branch a tick enters is that of the first
\* field, in the order power, mode, cooling setpoint, heating setpoint, swing,
\* whose mismatch the tick may act on; in revision 1 that field is the one
\* field changed.  In particular a power mismatch preempts every other one and
\* a mode mismatch preempts setpoints and swing.
C2_FixedPriority ==
    (Ticked /\ variant \in {1, 3}) =>
        /\ \A i \in 1..5 :
              (EligibleAtEntry(Priority[i])
               /\ \A j \in 1..(i - 1) : ~EligibleAtEntry(Priority[j]))
              => /\ last.branch = Priority[i]
                 /\ variant = 1 => ChangedFields = {Priority[i]}
        /\ "Active" \in MismatchedAtEntry => last.branch = "Active"
        /\ ("Active" \notin MismatchedAtEntry
            /\ "TargetHeaterCoolerState" \in MismatchedAtEntry)
           => last.branch = "TargetHeaterCoolerState"

\* A tick entered with the cooling setpoint and swing both to converge: the
\* cooling setpoint moved.
C2_Witness ==
    /\ Ticked
    /\ variant = 1
    /\ EligibleAtEntry("CoolingThresholdTemperature")
    /\ EligibleAtEntry("SwingMode")
    /\ ChangedFields = {"CoolingThresholdTemperature"}

\* ----------------------------------------------------------------------- C3
\* C3 as stated: a tick returns true exactly when desired equals confirmed in
\* all five fields at entry.
C3_TrueIffAllEqual ==
    (Ticked /\ variant = 1) => (last.ret = TRUE <=> MismatchedAtEntry = {})

\* C3: in revision 1 a tick returns true exactly when desired equals confirmed
\* in power and mode and, if confirmed power is Active and confirmed mode is
\* not Auto, also in swing and in the setpoint of the confirmed mode.
C3_TrueIffNothingEligible ==
    (Ticked /\ variant = 1) =>
        (last.ret = TRUE <=>
            /\ hk.Active = last.smBefore.Active
            /\ hk.TargetHeaterCoolerState = last.smBefore.TargetHeaterCoolerState
            /\ GateOpenAtEntry =>
                  /\ hk.SwingMode = last.smBefore.SwingMode
                  /\ last.smBefore.TargetHeaterCoolerState = 2 =>
                        hk.CoolingThresholdTemperature
                            = last.smBefore.CoolingThresholdTemperature
                  /\ last.smBefore.TargetHeaterCoolerState = 1 =>
                        hk.HeatingThresholdTemperature
                            = last.smBefore.HeatingThresholdTemperature)

\* A tick that returned true although a desired value differs.
C3_Witness ==
    /\ Ticked
    /\ variant = 1
    /\ last.ret = TRUE
    /\ MismatchedAtEntry # {}

\* ----------------------------------------------------------------------- C4
\* C4: in revision 1, the cooling setpoint changes only in a tick entered in
\* confirmed mode Cool and the heating setpoint only in one entered in
\* confirmed mode Heat, and a temperature signal is emitted only by such a
\* tick, which changes the setpoint of its mode and not the other one.
C4_SetpointOnlyInOwningMode ==
    (Ticked /\ variant = 1) =>
        /\ "CoolingThresholdTemperature" \in ChangedFields
               => last.smBefore.TargetHeaterCoolerState = 2
        /\ "HeatingThresholdTemperature" \in ChangedFields
               => last.smBefore.TargetHeaterCoolerState = 1
        /\ EmittedWords \cap TemperatureWords # {} =>
              \/ /\ last.smBefore.TargetHeaterCoolerState = 2
                 /\ ChangedFields = {"CoolingThresholdTemperature"}
              \/ /\ last.smBefore.TargetHeaterCoolerState = 1
                 /\ ChangedFields = {"HeatingThresholdTemperature"}

\* A tick entered with power Active, mode Cool and only the heating setpoint
\* to converge: no signal.
C4_Witness ==
    /\ Ticked
    /\ variant = 1
    /\ last.smBefore.Active = 1
    /\ last.smBefore.TargetHeaterCoolerState = 2
    /\ MismatchedAtEntry = {"HeatingThresholdTemperature"}
    /\ last.ir = <<>>

\* ----------------------------------------------------------------------- C5
\* C5: in revision 1, a tick entered with confirmed power Inactive or
\* confirmed mode Auto emits nothing but power-toggle and switch-mode signals.
C5_GatedSignals ==
    (Ticked /\ variant = 1 /\ ~GateOpenAtEntry) =>
        EmittedWords \subseteq {IR_COMMAND_SWITCH_POWER, IR_COMMAND_SWITCH_MODE}

\* A tick entered with power Inactive on both sides and a setpoint or swing
\* mismatch.
C5_Witness ==
    /\ Ticked
    /\ variant = 1
    /\ last.smBefore.Active = 0
    /\ hk.Active = 0
    /\ hk.TargetHeaterCoolerState = last.smBefore.TargetHeaterCoolerState
    /\ MismatchedAtEntry # {}
    /\ last.ir = <<>>

\* ----------------------------------------------------------------------- C6
\* The values one step away from v in the sequence of field f (revision 1):
\* the other value for power and swing, the successor in the cycle
\* Heat, Auto, Cool, unmapped 3, unmapped 4 for the mode, the degree below or
\* above inside the range for a setpoint.
OneStepAway(f, v) ==
    CASE f = "Active" -> {1 - v}
      [] f = "SwingMode" -> {1 - v}
      [] f = "TargetHeaterCoolerState" -> {<<2, 0, 3, 4, 1>>[v + 1]}
      [] f = "CoolingThresholdTemperature" -> {v - 1, v + 1} \cap 18..32
      [] f = "HeatingThresholdTemperature" -> {v - 1, v + 1} \cap 13..27

\* C6: in revision 1, after construction the confirmed fields change only in
\* a loop() pass whose converge tick ran, to a value one step away in the
\* field's sequence, with exactly one signal emitted by that tick; a pass
\* without tick (poll and commit tasks only), update() and the passing of time
\* leave the five confirmed fields as they were.
C6_ConfirmedChangesByOneStep ==
    variant = 1 =>
        /\ (last.op \in {"loop", "update", "advance"} /\ ~Ticked)
               => sm = last.smBefore
        /\ Ticked =>
               \A f \in ChangedFields :
                   /\ sm[f] \in OneStepAway(f, last.smBefore[f])
                   /\ Len(last.ir) = 1

\* A tick that moved the cooling setpoint by one degree while the desired
\* value was further away.
C6_Witness ==
    /\ Ticked
    /\ variant = 1
    /\ ChangedFields = {"CoolingThresholdTemperature"}
    /\ hk.CoolingThresholdTemperature - last.smBefore.CoolingThresholdTemperature >= 2
    /\ sm.CoolingThresholdTemperature # hk.CoolingThresholdTemperature
    /\ Len(last.ir) = 1

\* ----------------------------------------------------------------------- C7
\* C7: in revision 1, update() runs no tick, sets the long interval and marks
\* the current time, and every converge tick runs at least one long interval
\* after the latest update().
C7_UpdateDelaysTick ==
    variant = 1 =>
        /\ last.op = "update" =>
               /\ ~last.ranSM
               /\ sm = last.smBefore
               /\ delayLoopSMMillis = SM_WAKE_UP_EVERY_MILLISECONDS
               /\ lastLoopSMMillis = clock
               /\ updatedAt = clock
        /\ (Ticked /\ last.sinceUpdate # -1)
               => last.sinceUpdate >= SM_WAKE_UP_EVERY_MILLISECONDS

\* After two update() calls, the tick ran exactly one long interval after the
\* second one, more than one long interval after the tick before.
C7_Witness ==
    /\ Ticked
    /\ variant = 1
    /\ userWrites = 2
    /\ last.sinceUpdate = SM_WAKE_UP_EVERY_MILLISECONDS
    /\ last.sinceTick > SM_WAKE_UP_EVERY_MILLISECONDS
    /\ last.ret = FALSE

\* ----------------------------------------------------------------------- C8
\* C8 as stated: the interval is short or long; it goes from long to short
\* only by update() or at start-up; a tick that returns true sets it long; it
\* stays short while ticks return false.
C8_ConvergingOnlyByUpdate ==
    variant = 1 =>
        /\ delayLoopSMMillis \in {SM_CONVERGE_EVERY_MILLISECONDS,
                                  SM_WAKE_UP_EVERY_MILLISECONDS}
        /\ (last.delayBefore = SM_WAKE_UP_EVERY_MILLISECONDS
            /\ delayLoopSMMillis = SM_CONVERGE_EVERY_MILLISECONDS)
               => last.op \in {"update", "init", "restart"}
        /\ (Ticked /\ last.ret = TRUE)
               => delayLoopSMMillis = SM_WAKE_UP_EVERY_MILLISECONDS
        /\ (Ticked /\ last.ret = FALSE
            /\ last.delayBefore = SM_CONVERGE_EVERY_MILLISECONDS)
               => delayLoopSMMillis = SM_CONVERGE_EVERY_MILLISECONDS

\* C8: in revision 1 the interval is short or long; it is short after
\* construction; it goes from long to short only by a tick that returns false,
\* and such a tick runs only after an update(); it goes from short to long
\* only by a tick that returns true or by update(); after a tick it is long
\* if the tick returned true and short if not, and after update() it is long.
C8_ConvergingOnlyByFalseTick ==
    variant = 1 =>
        /\ delayLoopSMMillis \in {SM_CONVERGE_EVERY_MILLISECONDS,
                                  SM_WAKE_UP_EVERY_MILLISECONDS}
        /\ last.op \in {"init", "restart"}
               => delayLoopSMMillis = SM_CONVERGE_EVERY_MILLISECONDS
        /\ (last.delayBefore = SM_WAKE_UP_EVERY_MILLISECONDS
            /\ delayLoopSMMillis = SM_CONVERGE_EVERY_MILLISECONDS)
               => (Ticked /\ last.ret = FALSE)
        /\ (last.delayBefore = SM_CONVERGE_EVERY_MILLISECONDS
            /\ delayLoopSMMillis = SM_WAKE_UP_EVERY_MILLISECONDS)
               => ((Ticked /\ last.ret = TRUE) \/ last.op = "update")
        /\ Ticked =>
               delayLoopSMMillis = (IF last.ret = TRUE
                                    THEN SM_WAKE_UP_EVERY_MILLISECONDS
                                    ELSE SM_CONVERGE_EVERY_MILLISECONDS)
        /\ last.op = "update" => delayLoopSMMillis = SM_WAKE_UP_EVERY_MILLISECONDS
        /\ (Ticked /\ last.ret = FALSE) => updatedAt # -1

\* A tick that returned false took the interval from long to short.
C8_Witness ==
    /\ Ticked
    /\ variant = 1
    /\ last.ret = FALSE
    /\ last.delayBefore = SM_WAKE_UP_EVERY_MILLISECONDS
    /\ delayLoopSMMillis = SM_CONVERGE_EVERY_MILLISECONDS

\* ----------------------------------------------------------------------- C9
\* C9: in revisions 1 and 3, right after a converge tick the interval is the
\* long one if the tick returned true and the short one if it returned false,
\* the interval never holds a third value, and a tick runs (by the nowMillis
\* of its pass) no earlier than the interval set by the tick before after the
\* nowMillis of that tick.
C9_IntervalFromTickResult ==
    variant \in {1, 3} =>
        /\ delayLoopSMMillis \in {SM_CONVERGE_EVERY_MILLISECONDS,
                                  SM_WAKE_UP_EVERY_MILLISECONDS}
        /\ (Ticked /\ last.ret = TRUE)
               => delayLoopSMMillis = SM_WAKE_UP_EVERY_MILLISECONDS
        /\ (Ticked /\ last.ret = FALSE)
               => delayLoopSMMillis = SM_CONVERGE_EVERY_MILLISECONDS
        /\ (Ticked /\ last.sinceTick # -1)
               => last.sinceTick >= last.prevTickDelay

\* A tick that ran exactly one short interval after a tick that returned
\* false.
C9_Witness ==
    /\ Ticked
    /\ variant = 1
    /\ last.prevTickDelay = SM_CONVERGE_EVERY_MILLISECONDS
    /\ last.sinceTick = SM_CONVERGE_EVERY_MILLISECONDS

\* ---------------------------------------------------------------------- C10
\* C10 as stated: in revision 1 a flush happens only in a pass whose tick
\* staged no write, and no sooner than COMMIT_EVERY_MILLISECONDS after the
\* latest staged write.
C10_FlushAfterQuietInterval ==
    (variant = 1 /\ last.op = "loop" /\ last.flushed) =>
        /\ ~last.wrote
        /\ last.sinceStage >= COMMIT_EVERY_MILLISECONDS

\* ---------------------------------------------------------------------- C11
\* C11: in revision 1, a loop() pass that runs the commit task flushes exactly
\* when the dirty flag is set at that moment (a write was staged since the
\* last commit); a flush makes the durable bytes equal to the buffer; without
\* flush the durable bytes are untouched; after the commit task the flag is
\* false.  A pass that does not run the commit task leaves the durable bytes
\* alone and the flag set exactly if it was set or the tick staged a write.
C11_CommitFlushesIffDirty ==
    (variant = 1 /\ last.op = "loop") =>
        /\ last.ranCommit =>
              /\ last.dirtyAtCommit = (last.dirtyBefore \/ last.wrote)
              /\ last.flushed = last.dirtyAtCommit
              /\ last.flushed => eepromFlash = eepromRam
              /\ ~last.flushed => eepromFlash = last.flashBefore
              /\ hasUncommitedEEPROMChanges = FALSE
        /\ ~last.ranCommit =>
              /\ ~last.flushed
              /\ eepromFlash = last.flashBefore
              /\ hasUncommitedEEPROMChanges = (last.dirtyBefore \/ last.wrote)

\* A commit task that found the flag set by an earlier pass and changed the
\* durable bytes.
C11_Witness ==
    /\ variant = 1
    /\ last.op = "loop"
    /\ last.ranCommit
    /\ last.dirtyBefore
    /\ ~last.wrote
    /\ last.flushed
    /\ eepromFlash # last.flashBefore
    /\ hasUncommitedEEPROMChanges = FALSE

\* ---------------------------------------------------------------------- C12
\* The value start-up loads for the field stored at address a with compiled
\* default d, from the durable bytes.
DurableOrDefault(a, d) == IF eepromFlash[a] = 255 THEN d ELSE eepromFlash[a]

\* C12: in revision 1, right after a power loss and restart the durable bytes
\* are those of before, the buffer equals them, nothing is staged, and every
\* confirmed field is its durable byte, or its compiled default if that byte
\* is 255 -- whatever was staged and not committed before.
C12_RestartLoadsDurable ==
    (variant = 1 /\ last.op = "restart") =>
        /\ eepromFlash = last.flashBefore
        /\ eepromRam = eepromFlash
        /\ hasUncommitedEEPROMChanges = FALSE
        /\ sm = [Active |-> DurableOrDefault(0, 0),
                 TargetHeaterCoolerState |-> DurableOrDefault(1, 2),
                 CoolingThresholdTemperature |-> DurableOrDefault(2, 18),
                 HeatingThresholdTemperature |-> DurableOrDefault(3, 18),
                 SwingMode |-> DurableOrDefault(4, 1)]

\* A restart that kept a committed power value and lost a staged mode value.
C12_Witness ==
    /\ variant = 1
    /\ last.op = "restart"
    /\ last.dirtyBefore
    /\ eepromFlash[0] = 1
    /\ sm.Active = 1
    /\ last.smBefore.TargetHeaterCoolerState # sm.TargetHeaterCoolerState

\* C13: readEEPROMOrDefault(address, default) returns the default exactly
\* when the stored byte is 255 and the stored byte otherwise; on a buffer whose
\* five bytes are all 255, initializeStateMachineValues() yields power
\* Inactive (0), mode Cool (2), cooling setpoint 18, heating setpoint 18 and
\* swing Enabled (1), and on any other buffer each field is its stored byte
\* unless that byte is 255.
C13_ReadOrDefault ==
    /\ probe.op = "readEEPROMOrDefault" =>
          /\ probe.in.savedValue = 255 => probe.out = probe.in.defaultValue
          /\ probe.in.savedValue # 255 => probe.out = probe.in.savedValue
          /\ (probe.out = probe.in.defaultValue) <=>
                (probe.in.savedValue = 255 \/ probe.in.savedValue = probe.in.defaultValue)
    /\ probe.op = "initializeStateMachineValues" =>
          /\ (\A a \in 0..4 : probe.in[a] = 255) =>
                probe.out = [Active |-> 0, TargetHeaterCoolerState |-> 2,
                             CoolingThresholdTemperature |-> 18,
                             HeatingThresholdTemperature |-> 18, SwingMode |-> 1]
          /\ probe.out.Active = (IF probe.in[0] = 255 THEN 0 ELSE probe.in[0])
          /\ probe.out.TargetHeaterCoolerState = (IF probe.in[1] = 255 THEN 2 ELSE probe.in[1])
          /\ probe.out.CoolingThresholdTemperature = (IF probe.in[2] = 255 THEN 18 ELSE probe.in[2])
          /\ probe.out.HeatingThresholdTemperature = (IF probe.in[3] = 255 THEN 18 ELSE probe.in[3])
          /\ probe.out.SwingMode = (IF probe.in[4] = 255 THEN 1 ELSE probe.in[4])
    /\ (variant = 1 /\ eepromFlash = [a \in 0..4 |-> 255]) =>
          (sm.Active = 0 /\ sm.TargetHeaterCoolerState = 2
           /\ sm.CoolingThresholdTemperature = 18
           /\ sm.HeatingThresholdTemperature = 18 /\ sm.SwingMode = 1)

\* initializeStateMachineValues() was called on a never-written buffer and
\* returned the five defaults.
C13_Witness ==
    /\ variant = 1
    /\ probe.op = "initializeStateMachineValues"
    /\ \A a \in 0..4 : probe.in[a] = 255
    /\ probe.out.TargetHeaterCoolerState = 2
    /\ probe.out.CoolingThresholdTemperature = 18
    /\ sm = probe.out

\* C14: for every address and every byte value v other than 255,
\* writeEEPROM(address, v) followed by readEEPROMOrDefault(address, d) returns
\* v, whatever the older durable byte and the default are, whether or not
\* tickTaskCommit() ran in between; without a commit the durable byte is still
\* the older one.
C14_StagedValueReadBack ==
    probe.op = "writeEEPROM" =>
        /\ probe.in.value # 255 => probe.out.read = probe.in.value
        /\ ~probe.in.commit => (probe.out.durable = probe.in.older /\ probe.out.dirty)
        /\ probe.in.commit => (probe.out.durable = probe.in.value /\ ~probe.out.dirty)

\* A byte was staged over a different, older durable byte and read back
\* before any commit.
C14_Witness ==
    /\ probe.op = "writeEEPROM"
    /\ ~probe.in.commit
    /\ probe.in.value = 32
    /\ probe.in.older = 18
    /\ probe.in.defaultValue = 18
    /\ probe.out.durable = 18
    /\ probe.out.read = 32

\* The values of each field's array in revision 1, written out.
SequenceValues(f) ==
    CASE f = "Active" -> {0, 1}
      [] f = "TargetHeaterCoolerState" -> {1, 0, 2, 3, 4}
      [] f = "CoolingThresholdTemperature" -> 18..32
      [] f = "HeatingThresholdTemperature" -> 13..27
      [] f = "SwingMode" -> {0, 1}

\* C15: in every state reachable from a start-up on an erased store, or on a
\* store committed by the engine, with the desired values inside their
\* declared ranges, each confirmed field is an element of its own array
\* (power in {0, 1}, mode in the five-element cycle, cooling setpoint in
\* 18..32, heating setpoint in 13..27, swing in {0, 1}), and every tick that
\* progresses a field finds the field's confirmed value in the array.
C15_ConfirmedInSequence ==
    variant = 1 =>
        /\ \A f \in Fields : sm[f] \in SequenceValues(f)
        /\ \A a \in 0..4 : eepromRam[a] # 255 =>
               eepromRam[a] \in SequenceValues(
                   CASE a = 0 -> "Active"
                     [] a = 1 -> "TargetHeaterCoolerState"
                     [] a = 2 -> "CoolingThresholdTemperature"
                     [] a = 3 -> "HeatingThresholdTemperature"
                     [] a = 4 -> "SwingMode")
        /\ (Ticked /\ last.branch # "none") =>
               last.smBefore[last.branch] \in SequenceValues(last.branch)

\* The mode cycle passed through two entries the user cannot select.
C15_Witness ==
    /\ variant = 1
    /\ Ticked
    /\ last.branch = "TargetHeaterCoolerState"
    /\ last.smBefore.TargetHeaterCoolerState = 3
    /\ sm.TargetHeaterCoolerState = 4
    /\ hk.TargetHeaterCoolerState = 1

\* The call of progressNextState() in probe was made on a current value that
\* is not among the first statesCircleSize entries of the array.
ProbedStateIsForeign ==
    \A i \in 1..probe.in.statesCircleSize :
        probe.in.statesCircle[i] # probe.in.currentState

\* C16: for every array, increment and circle argument, progressNextState()
\* applied to a current value that is not an element of the array returns the
\* array's first entry; a tick that progresses such a field stores the first
\* entry as the confirmed value, stages it, emits its signal and returns false
\* like any other progressing tick.
C16_NotFoundFallsBackToFirst ==
    /\ (probe.op = "progressNextState" /\ ProbedStateIsForeign) =>
          probe.out = probe.in.statesCircle[1]
    /\ (probe.op = "tickTaskSM" /\ probe.out.branch # "none") =>
          /\ probe.out.branch = probe.in.field
          /\ probe.out.sm = [probe.in.sm EXCEPT ![probe.in.field] =
                                 CASE probe.in.field = "Active" -> 0
                                   [] probe.in.field = "TargetHeaterCoolerState" -> 1
                                   [] probe.in.field = "CoolingThresholdTemperature" -> 18
                                   [] probe.in.field = "HeatingThresholdTemperature" -> 13
                                   [] probe.in.field = "SwingMode" -> 0]
          /\ Len(probe.out.writes) = 1
          /\ probe.out.writes[1][2] = probe.out.sm[probe.in.field]
          /\ Len(probe.out.ir) = 1
          /\ probe.out.ret = FALSE

\* A tick decremented a cooling setpoint of 40 towards 32 and stored 18.
C16_Witness ==
    /\ probe.op = "tickTaskSM"
    /\ probe.in.field = "CoolingThresholdTemperature"
    /\ probe.in.sm.CoolingThresholdTemperature = 40
    /\ probe.in.hk.CoolingThresholdTemperature = 32
    /\ probe.out.branch = "CoolingThresholdTemperature"
    /\ probe.out.ir = <<IR_COMMAND_TEMPERATURE_DECREASE>>
    /\ probe.out.sm.CoolingThresholdTemperature = 18

\* The first and the last of the first statesCircleSize entries of the array
\* given to the probed progressNextState() call.
ProbedFirst == probe.in.statesCircle[1]
ProbedLast == probe.in.statesCircle[probe.in.statesCircleSize]

\* C17: for every array progressed with circle = true, progressNextState()
\* from the last entry with increment +1 returns the first entry, and from the
\* first entry with increment -1 returns the last entry.
C17_WrapsAtBothEnds ==
    (variant = 1 /\ probe.op = "progressNextState" /\ probe.in.circle) =>
        /\ (probe.in.currentState = ProbedLast /\ probe.in.increment = 1) =>
               probe.out = ProbedFirst
        /\ (probe.in.currentState = ProbedFirst /\ probe.in.increment = -1) =>
               probe.out = ProbedLast

\* C18: for every array progressed with circle = false, progressNextState()
\* from the last entry with increment +1 returns the last entry again (the
\* top of a temperature range saturates and does not wrap to the minimum).
C18_ClampsAtTop ==
    (variant = 1 /\ probe.op = "progressNextState" /\ ~probe.in.circle
     /\ probe.in.currentState = ProbedLast /\ probe.in.increment = 1) =>
        /\ probe.out = ProbedLast
        /\ probe.in.statesCircleSize > 1 => probe.out # ProbedFirst

\* The cooling setpoint was stepped up at 32 without the circle argument.
C18_Witness ==
    /\ variant = 1
    /\ probe.op = "progressNextState"
    /\ probe.in.field = "CoolingThresholdTemperature"
    /\ ~probe.in.circle
    /\ probe.in.currentState = 32
    /\ probe.in.increment = 1
    /\ probe.out = 32

\* C19: when the index of the current value plus the increment falls below 0
\* (the current value is the first entry and the increment is -1),
\* progressNextState() returns the last entry if circle is true and the first
\* entry if circle is false.
C19_UnderflowWrapsOrClamps ==
    (variant = 1 /\ probe.op = "progressNextState"
     /\ probe.in.currentState = ProbedFirst /\ probe.in.increment = -1) =>
        probe.out = (IF probe.in.circle THEN ProbedLast ELSE ProbedFirst)

\* The probed call ran at least n consecutive ticks from confirmed {power
\* Inactive, mode Cool, cooling 20, heating 16, swing Enabled} with desired
\* {power Active, mode Cool, cooling 24, heating 16, swing Enabled}.
ScenarioTicks(n) ==
    /\ probe.op = "consecutiveTicks"
    /\ probe.in.sm = [Active |-> 0, TargetHeaterCoolerState |-> 2,
                      CoolingThresholdTemperature |-> 20,
                      HeatingThresholdTemperature |-> 16, SwingMode |-> 1]
    /\ probe.in.hk = [Active |-> 1, TargetHeaterCoolerState |-> 2,
                      CoolingThresholdTemperature |-> 24,
                      HeatingThresholdTemperature |-> 16, SwingMode |-> 1]
    /\ Len(probe.out) >= n

\* Ticks 1 to 4 of the scenario: power toggle, then three temperature
\* increases to 21, 22 and 23, each returning false.
ScenarioFirstFourTicks ==
    /\ probe.out[1].ir = <<IR_COMMAND_SWITCH_POWER>>
    /\ probe.out[1].sm = [probe.in.sm EXCEPT !.Active = 1]
    /\ probe.out[1].ret = FALSE
    /\ \A i \in 2..4 :
          /\ probe.out[i].ir = <<IR_COMMAND_TEMPERATURE_INCREASE>>
          /\ probe.out[i].sm = [probe.in.sm EXCEPT !.Active = 1,
                                    !.CoolingThresholdTemperature = 19 + i]
          /\ probe.out[i].ret = FALSE

\* C20 as stated: in the scenario, tick1 emits the power toggle, confirms
\* power Active and returns false; ticks 2, 3 and 4 emit temperature-increase
\* and confirm 21, 22 and 23, returning false; tick5 confirms 24 and returns
\* true.
C20_FifthTickReturnsTrue ==
    ScenarioTicks(5) =>
        /\ ScenarioFirstFourTicks
        /\ probe.out[5].sm.CoolingThresholdTemperature = 24
        /\ probe.out[5].ret = TRUE

\* C20, amended: ticks 1 to 4 as stated; tick5 emits temperature-increase,
\* confirms 24 and returns false; the sixth tick changes nothing, emits
\* nothing and returns true.
C20_SixthTickReturnsTrue ==
    /\ ScenarioTicks(5) =>
          /\ ScenarioFirstFourTicks
          /\ probe.out[5].ir = <<IR_COMMAND_TEMPERATURE_INCREASE>>
          /\ probe.out[5].sm = probe.in.hk
          /\ probe.out[5].ret = FALSE
    /\ ScenarioTicks(6) =>
          /\ probe.out[6].ir = <<>>
          /\ probe.out[6].sm = probe.in.hk
          /\ probe.out[6].ret = TRUE

\* Six ticks of the scenario ran; the sixth returned true.
C20_Witness ==
    /\ ScenarioTicks(6)
    /\ probe.out[5].sm.CoolingThresholdTemperature = 24
    /\ probe.out[6].ret

\* The current mode derived from the confirmed power and the confirmed target
\* mode of revision 1, written out: Inactive (0) for power Inactive, else
\* Cooling (3) for Cool (2) or Auto (0), Heating (2) for Heat (1), Idle (1)
\* for any other mode.
DerivedCurrentMode ==
    IF sm.Active = 0 THEN 0
    ELSE IF sm.TargetHeaterCoolerState \in {2, 0} THEN 3
    ELSE IF sm.TargetHeaterCoolerState = 1 THEN 2
    ELSE 1

\* C21: in every state in which the converge tick has just returned true, the
\* published current mode equals the mode derived from the confirmed power and
\* the confirmed target mode.
C21_PublishedModeIsDerived ==
    (variant = 1 /\ Ticked /\ last.ret = TRUE) =>
        hkCurrentHeaterCoolerState = DerivedCurrentMode

\* The poll task of the last loop() pass got no usable temperature: the read
\* failed (NaN) or the reading lies outside [0, 99].
PollFailed ==
    \/ last.reading = <<>>
    \/ last.reading[1] < 0
    \/ last.reading[1] > 99

\* C22: in revision 1, a poll task whose read fails or whose reading lies
\* outside [0, 99] leaves the published temperature as it was; a reading
\* inside the range is published as is; a pass in which only the poll task
\* ran changes no confirmed field, neither the delay nor the last-run time of
\* the converge task, the store or the published current mode, and emits no
\* signal.
C22_PollPublishesValidReadingOnly ==
    (variant = 1 /\ last.op = "loop" /\ last.ranPoll) =>
        /\ PollFailed => hkCurrentTemperature = last.temperatureBefore
        /\ ~PollFailed => hkCurrentTemperature = last.reading[1]
        /\ lastLoopPollMillis = last.nowMillis
        /\ ~last.ranSM =>
              /\ sm = last.smBefore
              /\ delayLoopSMMillis = last.delayBefore
              /\ lastLoopSMMillis = last.lastSMBefore
              /\ hkCurrentHeaterCoolerState = last.currentBefore
              /\ eepromRam = last.ramBefore
              /\ last.ir = <<>>

\* A pass ran the poll task alone; the read failed and the temperature
\* published by an earlier poll was kept.
C22_Witness ==
    /\ variant = 1
    /\ last.op = "loop"
    /\ last.ranPoll
    /\ ~last.ranSM
    /\ last.reading = <<>>
    /\ last.temperatureBefore = 21
    /\ hkCurrentTemperature = 21
    /\ sm # hk

\* C23: update() only adjusts the debounce timer: it sets the converge delay
\* to the long interval (1000 ms in revision 1, 2000 ms in revision 2) and
\* the last-converge time to now, and leaves unchanged every confirmed field,
\* the dirty flag, the staged and the durable bytes, the poll and commit
\* timers, the published current mode and the published temperature; it emits
\* no signal and runs no converge tick.
C23_UpdateOnlyDebounces ==
    (variant \in {1, 2} /\ last.op = "update") =>
        /\ delayLoopSMMillis = (IF variant = 1 THEN 1000 ELSE 2000)
        /\ lastLoopSMMillis = clock
        /\ clock = last.nowMillis
        /\ sm = last.smBefore
        /\ hasUncommitedEEPROMChanges = last.dirtyBefore
        /\ eepromRam = last.ramBefore
        /\ eepromFlash = last.flashBefore
        /\ lastLoopPollMillis = last.lastPollBefore
        /\ lastLoopCommitMillis = last.lastCommitBefore
        /\ hkCurrentHeaterCoolerState = last.currentBefore
        /\ hkCurrentTemperature = last.temperatureBefore
        /\ last.ir = <<>>
        /\ ~last.ranSM
        /\ ~last.ranPoll
        /\ ~last.ranCommit

\* update() arrived while the engine was converging at the short interval
\* with a staged, uncommitted write.
C23_Witness ==
    /\ variant = 1
    /\ last.op = "update"
    /\ last.delayBefore = 100
    /\ delayLoopSMMillis = 1000
    /\ lastLoopSMMillis > last.lastSMBefore
    /\ last.lastSMBefore > 0
    /\ hasUncommitedEEPROMChanges
    /\ eepromRam # eepromFlash
    /\ sm # hk

\* The last pass of the level sensor's loop() probed the level.
TankProbed == tank.last.op = "loop" /\ tank.last.polled

\* The scaled sample values v of the last batch that have at most four
\* samples below them and at least five samples not above them: the fifth
\* smallest sample, i.e. the lower median of ten.
LowerMedians ==
    LET samples == tank.last.probe.samples
    IN {samples[k] : k \in {i \in 1..10 :
           /\ Cardinality({j \in 1..10 : samples[j] < samples[i]}) <= 4
           /\ Cardinality({j \in 1..10 : samples[j] <= samples[i]}) >= 5}}

\* C24: for every batch of 10 echo durations, each sample is a percentage in
\* [0, 100], the sorted batch is an ascending rearrangement of the samples,
\* and probeWaterLevel() returns an integer in 0..100 that is the lower median
\* of the samples rounded to the nearest integer.
C24_ProbeReturnsLowerMedian ==
    TankProbed =>
        LET p == tank.last.probe
        IN /\ Len(p.samples) = 10
           /\ \A i \in 1..10 : p.samples[i] >= 0 /\ p.samples[i] <= 100 * 16296
           /\ \A i \in 1..9 : p.sorted[i] <= p.sorted[i + 1]
           /\ \A i \in 1..10 :
                 Cardinality({j \in 1..10 : p.sorted[j] = p.samples[i]})
                 = Cardinality({j \in 1..10 : p.samples[j] = p.samples[i]})
           /\ p.level \in 0..100
           /\ \E m \in LowerMedians :
                 /\ LowerMedians = {m}
                 /\ 2 * m >= (2 * p.level - 1) * 16296
                 /\ 2 * m < (2 * p.level + 1) * 16296
           /\ tank.waterLevel = p.level

\* A batch taken out of order, with a failed sample, whose two middle samples
\* round to different levels.
C24_Witness ==
    /\ TankProbed
    /\ tank.last.probe.samples # tank.last.probe.sorted
    /\ \E i \in 1..10 : tank.last.batch[i] = 0
    /\ tank.last.probe.sorted[5] + 16296 < tank.last.probe.sorted[6]
    /\ tank.last.probe.level \in 1..99

\* ---------------------------------------------------------------------- C25
\* The byte staged in the buffer at address a, or the default d if it is 255.
StagedOrDefault(a, d) == IF eepromRam[a] = 255 THEN d ELSE eepromRam[a]

\* The address each confirmed field is staged at.
AddressOfField ==
    [Active |-> 0, TargetHeaterCoolerState |-> 1,
     CoolingThresholdTemperature |-> 2, HeatingThresholdTemperature |-> 3,
     SwingMode |-> 4]

\* C25: in revision 1, every tick that changes a confirmed field stores the
\* new value in the buffer at that field's address (and nowhere else) and sets
\* the dirty flag before it returns, and the durable bytes change only through
\* a flush of the commit task; in every state the buffer read with the
\* compiled defaults equals the confirmed configuration in all five fields.
C25_StagedEqualsConfirmed ==
    variant = 1 =>
        /\ sm.Active = StagedOrDefault(0, 0)
        /\ sm.TargetHeaterCoolerState = StagedOrDefault(1, 2)
        /\ sm.CoolingThresholdTemperature = StagedOrDefault(2, 18)
        /\ sm.HeatingThresholdTemperature = StagedOrDefault(3, 18)
        /\ sm.SwingMode = StagedOrDefault(4, 1)
        /\ (Ticked /\ ChangedFields # {}) =>
              /\ last.wrote
              /\ \A f \in ChangedFields :
                    \A a \in 0..4 :
                       eepromRam[a] = (IF a = AddressOfField[f] THEN sm[f]
                                       ELSE last.ramBefore[a])
              /\ IF last.ranCommit THEN last.dirtyAtCommit
                 ELSE hasUncommitedEEPROMChanges
        /\ (last.op = "loop" /\ ~last.flushed) => eepromFlash = last.flashBefore
        /\ (last.op = "loop" /\ ~last.wrote) => eepromRam = last.ramBefore

\* A setpoint tick staged a value the durable bytes do not hold, with no
\* commit in the pass, while the swing byte was never written and still reads
\* as its default.
C25_Witness ==
    /\ variant = 1
    /\ Ticked
    /\ ChangedFields = {"CoolingThresholdTemperature"}
    /\ ~last.ranCommit
    /\ hasUncommitedEEPROMChanges
    /\ eepromRam[2] = sm.CoolingThresholdTemperature
    /\ eepromFlash[2] # eepromRam[2]
    /\ eepromRam[4] = 255
    /\ sm.SwingMode = 1

\* ---------------------------------------------------------------------- C26
\* A run of consecutive ticks under a fixed desired configuration.
Converged == probe.op = "converge"

\* The confirmed configuration tick i of the run is entered with.
SmBefore(i) == IF i = 1 THEN probe.in.sm ELSE probe.out[i - 1].sm

\* Position of each mode value on the unit's button cycle Heat (1), Auto (0),
\* Cool (2), Dry (3), Fan (4), and the number of presses from one to another.
CyclePosition == [mode \in 0..4 |-> IF mode = 1 THEN 0 ELSE IF mode = 0 THEN 1 ELSE mode]

ForwardDistance(from, to) == (CyclePosition[to] - CyclePosition[from] + 5) % 5

SignalTicks(word) == {i \in 1..Len(probe.out) : probe.out[i].ir = <<word>>}

\* C26: in revision 1, a tick entered with power matched and mode mismatched
\* moves the confirmed mode one position forward on the cycle Heat, Auto,
\* Cool, Dry, Fan, Heat and emits one switch-mode signal, and no other tick
\* emits that signal; with the desired mode fixed in {Auto, Heat, Cool} the
\* number of switch-mode signals until the modes match is the forward cyclic
\* distance from the confirmed to the desired mode, at most 4.
C26_ModeStepsForwardOnCycle ==
    Converged =>
        /\ \A i \in 1..Len(probe.out) :
              LET b == SmBefore(i)
                  r == probe.out[i]
                  modeTick == /\ probe.in.hk.Active = b.Active
                              /\ probe.in.hk.TargetHeaterCoolerState
                                    # b.TargetHeaterCoolerState
              IN /\ modeTick =>
                       /\ CyclePosition[r.sm.TargetHeaterCoolerState]
                             = (CyclePosition[b.TargetHeaterCoolerState] + 1) % 5
                       /\ r.sm = [b EXCEPT !.TargetHeaterCoolerState =
                                              r.sm.TargetHeaterCoolerState]
                       /\ r.ir = <<IR_COMMAND_SWITCH_MODE>>
                 /\ ~modeTick =>
                       /\ IR_COMMAND_SWITCH_MODE \notin {r.ir[k] : k \in 1..Len(r.ir)}
                       /\ r.sm.TargetHeaterCoolerState = b.TargetHeaterCoolerState
        /\ Cardinality(SignalTicks(IR_COMMAND_SWITCH_MODE))
              = ForwardDistance(probe.in.sm.TargetHeaterCoolerState,
                                probe.in.hk.TargetHeaterCoolerState)
        /\ Cardinality(SignalTicks(IR_COMMAND_SWITCH_MODE)) <= 4
        /\ probe.out[Len(probe.out)].sm.TargetHeaterCoolerState
              = probe.in.hk.TargetHeaterCoolerState

\* From Cool to Heat behind a power toggle: three switch-mode signals, the
\* confirmed mode passing through Dry and Fan.
C26_Witness ==
    /\ Converged
    /\ probe.in.sm.TargetHeaterCoolerState = 2
    /\ probe.in.hk.TargetHeaterCoolerState = 1
    /\ probe.in.sm.Active # probe.in.hk.Active
    /\ SignalTicks(IR_COMMAND_SWITCH_MODE) = {2, 3, 4}
    /\ probe.out[2].sm.TargetHeaterCoolerState = 3
    /\ probe.out[3].sm.TargetHeaterCoolerState = 4
    /\ probe.out[4].sm.TargetHeaterCoolerState = 1

\* ---------------------------------------------------------------------- C27
AbsoluteDifference(x, y) == IF x < y THEN y - x ELSE x - y

\* Tick i of the run is entered with power and mode matched, the unit Active in
\* the mode that owns setpoint f, and that setpoint mismatched.
SetpointTick(i, f) ==
    LET b == SmBefore(i)
    IN /\ probe.in.hk.Active = b.Active
       /\ probe.in.hk.TargetHeaterCoolerState = b.TargetHeaterCoolerState
       /\ b.Active = 1
       /\ b.TargetHeaterCoolerState
             = (IF f = "CoolingThresholdTemperature" THEN 2 ELSE 1)
       /\ probe.in.hk[f] # b[f]

Setpoints == {"CoolingThresholdTemperature", "HeatingThresholdTemperature"}

\* The setpoint the desired configuration lets the ticks converge: the one of
\* the desired mode if the desired power is Active, else none.
OwnedSetpoints ==
    IF probe.in.hk.Active # 1 THEN {}
    ELSE IF probe.in.hk.TargetHeaterCoolerState = 2 THEN {"CoolingThresholdTemperature"}
    ELSE IF probe.in.hk.TargetHeaterCoolerState = 1 THEN {"HeatingThresholdTemperature"}
    ELSE {}

\* C27: in revision 1, with the desired setpoints fixed inside their declared
\* ranges, a setpoint tick moves the confirmed setpoint by exactly one degree
\* toward the desired one and emits temperature-increase exactly if confirmed
\* was below desired, temperature-decrease otherwise; the distance to the
\* desired setpoint decreases by exactly 1, the confirmed setpoint never
\* passes the desired one, no other tick touches a setpoint or emits a
\* temperature signal, and the number of temperature signals of the run is
\* the initial distance of the setpoint being converged.
C27_SetpointStepsTowardDesired ==
    Converged =>
        /\ \A i \in 1..Len(probe.out) :
              LET b == SmBefore(i)
                  r == probe.out[i]
              IN /\ \A f \in Setpoints :
                       SetpointTick(i, f) =>
                          /\ r.sm = [b EXCEPT ![f] = IF b[f] < probe.in.hk[f]
                                                     THEN b[f] + 1 ELSE b[f] - 1]
                          /\ r.ir = <<IF b[f] < probe.in.hk[f]
                                      THEN IR_COMMAND_TEMPERATURE_INCREASE
                                      ELSE IR_COMMAND_TEMPERATURE_DECREASE>>
                          /\ AbsoluteDifference(probe.in.hk[f], r.sm[f])
                                = AbsoluteDifference(probe.in.hk[f], b[f]) - 1
                          /\ (b[f] < probe.in.hk[f]) => (r.sm[f] <= probe.in.hk[f])
                          /\ (b[f] > probe.in.hk[f]) => (r.sm[f] >= probe.in.hk[f])
                 /\ (\A f \in Setpoints : ~SetpointTick(i, f)) =>
                          /\ \A f \in Setpoints : r.sm[f] = b[f]
                          /\ \A k \in 1..Len(r.ir) : r.ir[k] \notin TemperatureWords
        /\ \A f \in OwnedSetpoints :
              Cardinality(SignalTicks(IR_COMMAND_TEMPERATURE_INCREASE)
                          \cup SignalTicks(IR_COMMAND_TEMPERATURE_DECREASE))
                 = AbsoluteDifference(probe.in.hk[f], probe.in.sm[f])
        /\ OwnedSetpoints = {} =>
              SignalTicks(IR_COMMAND_TEMPERATURE_INCREASE)
                 \cup SignalTicks(IR_COMMAND_TEMPERATURE_DECREASE) = {}

\* Fourteen decreases from 32 to 18 in Cool, then the tick that returns true.
C27_Witness ==
    /\ Converged
    /\ probe.in.sm.CoolingThresholdTemperature = 32
    /\ probe.in.hk.CoolingThresholdTemperature = 18
    /\ probe.in.sm.Active = 1 /\ probe.in.hk.Active = 1
    /\ probe.in.sm.TargetHeaterCoolerState = 2
    /\ probe.in.hk.TargetHeaterCoolerState = 2
    /\ probe.in.sm.SwingMode = probe.in.hk.SwingMode
    /\ SignalTicks(IR_COMMAND_TEMPERATURE_DECREASE) = 1..14
    /\ probe.out[14].sm.CoolingThresholdTemperature = 18
    /\ probe.out[15].ret

\* ---------------------------------------------------------------------- C28
\* The last tick was entered with power matched and mode mismatched, and its
\* step brought the confirmed mode to the desired mode.
LandedOnDesiredMode ==
    /\ hk.Active = last.smBefore.Active
    /\ hk.TargetHeaterCoolerState # last.smBefore.TargetHeaterCoolerState
    /\ sm.TargetHeaterCoolerState = hk.TargetHeaterCoolerState

\* The current mode of the confirmed power and mode, written out for both
\* revisions: Inactive (0) for power Inactive, else Cooling (3) for Cool (2)
\* and Auto (0 in revision 1, 3 in revision 2), Heating (2) for Heat (1), Idle
\* (1) for any other mode.
DerivedCurrentModeOfRevision ==
    IF sm.Active = 0 THEN 0
    ELSE IF sm.TargetHeaterCoolerState \in (IF variant = 1 THEN {2, 0} ELSE {2, 3}) THEN 3
    ELSE IF sm.TargetHeaterCoolerState = 1 THEN 2
    ELSE 1

\* C28: in revisions 1 and 2, a converge tick whose mode step lands on the
\* desired mode publishes the current mode derived from the confirmed power and
\* the new confirmed mode; every other tick (power toggle, setpoint, swing, a
\* mode step landing elsewhere, a tick returning true) leaves the published
\* current mode as it was.
C28_PublishesOnLandingOnly ==
    (variant \in {1, 2} /\ Ticked) =>
        /\ LandedOnDesiredMode =>
              hkCurrentHeaterCoolerState = DerivedCurrentModeOfRevision
        /\ ~LandedOnDesiredMode =>
              hkCurrentHeaterCoolerState = last.currentBefore

\* A mode step lands on Heat with the unit Active: Heating replaces what was
\* published before.
C28_Witness ==
    /\ variant = 1
    /\ Ticked
    /\ LandedOnDesiredMode
    /\ sm.Active = 1
    /\ sm.TargetHeaterCoolerState = 1
    /\ hkCurrentHeaterCoolerState = 2
    /\ last.currentBefore # 2

\* ---------------------------------------------------------------------- C29
\* The ticks of the run that returned false.
FalseTicks == {i \in 1..Len(probe.out) : ~probe.out[i].ret}

\* C29: in revision 1, with the desired configuration fixed (power Inactive or
\* Active, mode Auto, Heat or Cool, setpoints inside their ranges), from any
\* confirmed configuration on the sequences at most 20 consecutive ticks
\* return false (at most 1 power, 4 mode, 14 setpoint, 1 swing), the next tick
\* returns true, and every later tick returns true, emits no signal and
\* changes nothing.
C29_AtMostTwentyFalseTicks ==
    Converged =>
        /\ Cardinality(FalseTicks) <= 20
        /\ FalseTicks = 1..Cardinality(FalseTicks)
        /\ Cardinality(SignalTicks(IR_COMMAND_SWITCH_POWER)) <= 1
        /\ Cardinality(SignalTicks(IR_COMMAND_SWITCH_MODE)) <= 4
        /\ Cardinality(SignalTicks(IR_COMMAND_TEMPERATURE_INCREASE)
                       \cup SignalTicks(IR_COMMAND_TEMPERATURE_DECREASE)) <= 14
        /\ Cardinality(SignalTicks(IR_COMMAND_TOGGLE_SWING)) <= 1
        /\ \A i \in 1..Len(probe.out) :
              /\ i \in FalseTicks => Len(probe.out[i].ir) = 1
              /\ i \notin FalseTicks =>
                    /\ probe.out[i].ret
                    /\ probe.out[i].ir = <<>>
                    /\ probe.out[i].writes = <<>>
                    /\ probe.out[i].sm = SmBefore(i)
        /\ Len(probe.out) > 20 /\ probe.out[21].ret

\* The longest run: a power toggle, four mode steps from Dry to Cool, fourteen
\* decreases from 32 to 18 and a swing toggle, then ticks that return true.
C29_Witness ==
    /\ Converged
    /\ FalseTicks = 1..20
    /\ SignalTicks(IR_COMMAND_SWITCH_POWER) = {1}
    /\ SignalTicks(IR_COMMAND_SWITCH_MODE) = 2..5
    /\ SignalTicks(IR_COMMAND_TEMPERATURE_DECREASE) = 6..19
    /\ SignalTicks(IR_COMMAND_TOGGLE_SWING) = {20}
    /\ probe.out[21].ret /\ probe.out[22].ret
    /\ probe.out[22].sm = probe.in.hk

\* ---------------------------------------------------------------------- C30
\* C30: in revisions 1 and 2, whenever a tick returns true the confirmed power
\* and mode equal the desired power and mode; if moreover the confirmed power
\* is Active and the confirmed mode is Heat or Cool, the setpoint of that mode
\* and the swing field equal their desired values as well.
C30_TrueMeansConverged ==
    (variant \in {1, 2} /\ Ticked /\ last.ret) =>
        /\ sm.Active = hk.Active
        /\ sm.TargetHeaterCoolerState = hk.TargetHeaterCoolerState
        /\ (sm.Active = 1 /\ sm.TargetHeaterCoolerState = 2) =>
              /\ sm.CoolingThresholdTemperature = hk.CoolingThresholdTemperature
              /\ sm.SwingMode = hk.SwingMode
        /\ (sm.Active = 1 /\ sm.TargetHeaterCoolerState = 1) =>
              /\ sm.HeatingThresholdTemperature = hk.HeatingThresholdTemperature
              /\ sm.SwingMode = hk.SwingMode

\* A tick returns true with the unit Active in Cool after the cooling setpoint
\* was converged, the heating setpoint still differing from the desired one.
C30_Witness ==
    /\ variant = 1
    /\ Ticked /\ last.ret
    /\ sm.Active = 1
    /\ sm.TargetHeaterCoolerState = 2
    /\ sm.CoolingThresholdTemperature = hk.CoolingThresholdTemperature
    /\ sm.CoolingThresholdTemperature # 18
    /\ sm.HeatingThresholdTemperature # hk.HeatingThresholdTemperature

\* ---------------------------------------------------------------------- C31
\* C31: in revision 1, in every state in which the dirty flag is false, each
\* of the five confirmed fields is the durable byte at its address, or its
\* compiled default where that byte is 255 -- at startup on erased bytes as
\* well as after flushes and restarts.
C31_CleanMeansDurable ==
    (variant = 1 /\ ~hasUncommitedEEPROMChanges) =>
        /\ sm.Active = DurableOrDefault(0, 0)
        /\ sm.TargetHeaterCoolerState = DurableOrDefault(1, 2)
        /\ sm.CoolingThresholdTemperature = DurableOrDefault(2, 18)
        /\ sm.HeatingThresholdTemperature = DurableOrDefault(3, 18)
        /\ sm.SwingMode = DurableOrDefault(4, 1)

\* After a flush the flag is false, the durable power and cooling bytes hold
\* what the ticks staged, and the swing byte is still erased and read as its
\* default.
C31_Witness ==
    /\ variant = 1
    /\ ~hasUncommitedEEPROMChanges
    /\ last.op = "loop" /\ last.flushed
    /\ eepromFlash[0] = 1 /\ sm.Active = 1
    /\ eepromFlash[2] \notin {18, 255}
    /\ sm.CoolingThresholdTemperature = eepromFlash[2]
    /\ eepromFlash[4] = 255 /\ sm.SwingMode = 1

\* ---------------------------------------------------------------------- C32
\* Nothing is left to do: the last tick, if the last pass ran one, returned
\* true without a signal, the flag is false, and the durable bytes are the
\* buffer and hold every confirmed field.
Quiescent ==
    /\ (last.op = "loop" /\ last.ranSM) => (last.ret /\ last.ir = <<>>)
    /\ ~hasUncommitedEEPROMChanges
    /\ eepromFlash = eepromRam
    /\ sm.Active = DurableOrDefault(0, 0)
    /\ sm.TargetHeaterCoolerState = DurableOrDefault(1, 2)
    /\ sm.CoolingThresholdTemperature = DurableOrDefault(2, 18)
    /\ sm.HeatingThresholdTemperature = DurableOrDefault(3, 18)
    /\ sm.SwingMode = DurableOrDefault(4, 1)

\* A tick has returned true with the confirmed configuration equal to the
\* desired one in power and mode, and everything staged is durable.
ConvergedAndCommitted ==
    /\ Ticked /\ last.ret
    /\ sm.Active = hk.Active
    /\ sm.TargetHeaterCoolerState = hk.TargetHeaterCoolerState
    /\ Quiescent

\* C32: in revision 1, once the user has stopped writing, with legal desired
\* values, no restart and loop() called again and again while the clock
\* advances, eventually a tick returns true with the flag false and the
\* durable bytes holding the confirmed configuration, and from some point on
\* this stays so: every staged write is eventually committed.
C32_EventuallyConvergedAndCommitted ==
    (<>ConvergedAndCommitted) /\ (<>[]Quiescent)

\* The longest way there: power toggled and cooling taken from 18 to 32 by
\* fifteen ticks, the values flushed, and a later tick returning true.
C32_Witness ==
    /\ profile = "live"
    /\ ConvergedAndCommitted
    /\ userWrites = 2
    /\ sm.Active = 1
    /\ sm.CoolingThresholdTemperature = 32
    /\ eepromFlash[0] = 1
    /\ eepromFlash[2] = 32

\* ---------------------------------------------------------------------- C33
\* A start-up followed by ticks, on its own.
Started == probe.op = "startup"

\* The durable byte at address a, or the default d if it is 255, of the bytes
\* the start-up found.
FoundOrDefault(a, d) == IF probe.in.flash[a] = 255 THEN d ELSE probe.in.flash[a]

\* C33: in revision 1, right after the constructor -- whatever the durable
\* bytes -- the five desired values equal the five confirmed values loaded
\* from those bytes, and the published current mode is the one derived from
\* the confirmed power and mode (Inactive unless power is Active; Cooling for
\* Cool and Auto, Heating for Heat, Idle otherwise); every tick that follows
\* without an update() returns true, emits no signal and stages no write.
C33_StartupForcesDesired ==
    Started =>
        /\ probe.out.sm = [Active |-> FoundOrDefault(0, 0),
                           TargetHeaterCoolerState |-> FoundOrDefault(1, 2),
                           CoolingThresholdTemperature |-> FoundOrDefault(2, 18),
                           HeatingThresholdTemperature |-> FoundOrDefault(3, 18),
                           SwingMode |-> FoundOrDefault(4, 1)]
        /\ probe.out.hk = probe.out.sm
        /\ probe.out.current =
              (IF probe.out.sm.Active # 1 THEN 0
               ELSE IF probe.out.sm.TargetHeaterCoolerState \in {2, 0} THEN 3
               ELSE IF probe.out.sm.TargetHeaterCoolerState = 1 THEN 2
               ELSE 1)
        /\ Len(probe.out.ticks) = MaxStartupTicks
        /\ \A i \in 1..Len(probe.out.ticks) :
              /\ probe.out.ticks[i].ret
              /\ probe.out.ticks[i].ir = <<>>
              /\ probe.out.ticks[i].writes = <<>>
              /\ probe.out.ticks[i].sm = probe.out.sm
              /\ probe.out.ticks[i].current = probe.out.current

\* A start-up on committed bytes that differ from every default (power Active,
\* mode Heat), with a setpoint byte of no sequence and an erased swing byte.
C33_Witness ==
    /\ Started
    /\ probe.in.flash[0] = 1
    /\ probe.in.flash[1] = 1
    /\ probe.in.flash[2] = 254
    /\ probe.in.flash[4] = 255
    /\ probe.out.hk.CoolingThresholdTemperature = 254
    /\ probe.out.hk.SwingMode = 1
    /\ probe.out.current = 2
    /\ probe.out.ticks[3].ret

\* ---------------------------------------------------------------------- C34
RoundTripped == probe.op = "roundTrip"

\* C34: in revision 1, every value a tick stages lies in 0..32 (one byte, not
\* the erased byte 255); after staging the writes of a run of ticks,
\* committing and starting up again, the five confirmed values are exactly
\* those of before the power loss, and no field a tick wrote comes back as a
\* default in place of the byte written.
C34_RoundTripIsLossless ==
    RoundTripped =>
        /\ \A i \in 1..Len(probe.out.staged) :
              /\ probe.out.staged[i][2] \in 0..32
              /\ probe.out.staged[i][2] # 255
              /\ probe.out.durable[probe.out.staged[i][1]] \in 0..32
              /\ probe.out.reloaded[Priority[probe.out.staged[i][1] + 1]]
                    = probe.out.durable[probe.out.staged[i][1]]
        /\ probe.out.reloaded = probe.out.confirmed

\* A run from erased bytes that staged the modes Dry, Fan, Heat and Auto: the
\* byte 0 of Auto comes back as 0, not as the default Cool, and the fields
\* nobody wrote come back as their defaults.
C34_Witness ==
    /\ RoundTripped
    /\ probe.in.flash = ErasedEEPROM
    /\ Len(probe.out.staged) = 4
    /\ probe.out.durable[1] = 0
    /\ probe.out.reloaded.TargetHeaterCoolerState = 0
    /\ probe.out.durable[0] = 255
    /\ probe.out.durable[2] = 255
    /\ probe.out.reloaded.Active = 0
    /\ probe.out.reloaded.CoolingThresholdTemperature = 18

\* ---------------------------------------------------------------------- C35
ConvergedR2 == probe.op = "convergeR2"

\* C35: in revision 2, with power Active, the mode matched on Cool (resp. Heat)
\* and the desired setpoint fixed at any degree of the declared range 18..32
\* (resp. 13..27), the maximum included, repeated ticks bring the confirmed
\* setpoint to the desired one and a tick returns true.
C35_SetpointConvergesR2 ==
    ConvergedR2 =>
        \E i \in 1..Len(probe.out) :
           /\ probe.out[i].ret
           /\ probe.out[i].sm[probe.in.field] = probe.in.hk[probe.in.field]

\* ---------------------------------------------------------------------- C36
DueChecked == probe.op = "loopTaskDue"

\* millis() wrapped around between the last run and the pass: the clock value
\* of the pass is below the one of the last run.
WrappedSinceLastRun ==
    \/ probe.in.nowMillis.hi < probe.in.lastMillis.hi
    \/ /\ probe.in.nowMillis.hi = probe.in.lastMillis.hi
       /\ probe.in.nowMillis.lo < probe.in.lastMillis.lo

\* C36: the due checks of the poll task and of the converge task compare
\* (now - last) modulo 2^32 with the interval, so a task runs in a pass
\* exactly if at least its interval has elapsed since it last ran (or since
\* update() was called), also when millis() wrapped around in between:
\* neither early nor never again.
C36_DueChecksSurviveWrap ==
    DueChecked =>
        (probe.out <=> (probe.in.elapsed >= (CASE probe.in.task = "poll" -> 30000
                                               [] probe.in.task = "converge" -> 100
                                               [] probe.in.task = "wakeUp" -> 1000)))

\* The poll task last ran 1000 ms before the wrap-around and the pass comes
\* exactly one poll interval later, 29000 ms after it: the task is due.
C36_Witness ==
    /\ DueChecked
    /\ probe.in.task = "poll"
    /\ probe.in.lastMillis = [hi |-> 65535, lo |-> 64536]
    /\ probe.in.elapsed = 30000
    /\ probe.in.nowMillis = [hi |-> 0, lo |-> 29000]
    /\ WrappedSinceLastRun
    /\ probe.out

\* ---------------------------------------------------------------------- C37
\* The positions of the last batch whose raw reading was a zero duration.
FailedSamples == {i \in 1..Len(tank.last.batch) : tank.last.batch[i] = 0}

\* C37: a zero-duration reading stays in the batch as a 0% sample (the batch
\* keeps its 10 samples); whenever at least 5 of the 10 readings fail, the
\* probe returns 0 and the poll publishes level 0 with the low-level status
\* raised; the status published is 1 exactly when the published level is at
\* most 20.
C37_FailedSamplesCountAsZero ==
    TankProbed =>
        /\ Len(tank.last.batch) = 10
        /\ Len(tank.last.probe.samples) = 10
        /\ \A i \in FailedSamples : tank.last.probe.samples[i] = 0
        /\ Cardinality(FailedSamples) >= 5 =>
              /\ tank.last.probe.level = 0
              /\ tank.waterLevel = 0
              /\ tank.statusLowBattery = 1
        /\ tank.waterLevel = tank.last.probe.level
        /\ tank.statusLowBattery = (IF tank.waterLevel <= 20 THEN 1 ELSE 0)

\* Exactly five readings of a batch failed while the other five saw a tank
\* about half full: level 0 with the low-level status.
C37_Witness ==
    /\ TankProbed
    /\ Cardinality(FailedSamples) = 5
    /\ \A i \in (1..10) \ FailedSamples :
          tank.last.probe.samples[i] > 40 * PERCENT_SCALE
    /\ tank.waterLevel = 0
    /\ tank.statusLowBattery = 1

\* ---------------------------------------------------------------------- C38
\* A step that is one pass of the level sensor's loop().
TankLoopPass == tank' # tank /\ tank'.last.op = "loop"

\* C38: a pass of the level sensor's loop() probes exactly when it is the
\* first pass after start-up or more than POLL_EVERY_MILLISECONDS (600000 ms)
\* have elapsed since the level was last published, whatever level was
\* measured before; a pass that probes publishes one level and one low-level
\* status and restarts the interval, a pass that does not probe publishes
\* nothing.
C38_ProbesFirstThenAtFixedInterval ==
    [][TankLoopPass =>
          /\ tank'.last.polled <=>
                (~tank.valuesInitialized \/ tank.sinceSet > 600000)
          /\ tank.polls = 0 <=> ~tank.valuesInitialized
          /\ tank'.last.polled =>
                /\ tank'.polls = tank.polls + 1
                /\ tank'.valuesInitialized
                /\ tank'.sinceSet = 0
                /\ tank'.waterLevel = tank'.last.probe.level
                /\ tank'.statusLowBattery \in {0, 1}
          /\ ~tank'.last.polled =>
                /\ tank'.polls = tank.polls
                /\ tank'.sinceSet = tank.sinceSet
                /\ tank'.waterLevel = tank.waterLevel
                /\ tank'.statusLowBattery = tank.statusLowBattery]_vars

\* The sensor probed a second time, after two waits with a pass in between
\* that did not probe.
C38_Witness ==
    /\ TankProbed
    /\ tank.polls = 2
    /\ tank.waits = 2
    /\ tank.sinceSet = 0

\* ---------------------------------------------------------------------- C39
\* How often a value occurs in an array.
Occurrences(values, v) == Cardinality({i \in 1..Len(values) : values[i] = v})

\* C39: floatQuickSort(values, 0, 9) on the ten samples of a batch (with
\* duplicates, already sorted or reversed) ends without reading or writing
\* outside indices 0..9 and leaves the array in ascending order, a
\* permutation of the samples it was given.
C39_QuickSortSortsInBounds ==
    TankProbed =>
        LET before == tank.last.probe.samples
            after == tank.last.probe.sorted
        IN /\ ~tank.last.probe.outside
           /\ Len(before) = 10
           /\ Len(after) = 10
           /\ \A i \in 1..9 : after[i] <= after[i + 1]
           /\ \A i \in 1..10 :
                 /\ Occurrences(after, before[i]) = Occurrences(before, before[i])
                 /\ Occurrences(before, after[i]) = Occurrences(after, after[i])

\* A batch whose samples were in descending order with repeated values, three
\* or more of them different, and came out reordered.
C39_Witness ==
    /\ TankProbed
    /\ ~tank.last.probe.outside
    /\ \A i \in 1..9 : tank.last.probe.samples[i] >= tank.last.probe.samples[i + 1]
    /\ \E i \in 1..9 : tank.last.probe.samples[i] = tank.last.probe.samples[i + 1]
    /\ Cardinality({tank.last.probe.samples[i] : i \in 1..10}) >= 3
    /\ tank.last.probe.sorted # tank.last.probe.samples

====
